---- MODULE Spec2Model ----
(***************************************************************************)
(* A model of measurement-kit/libnettest2 (src/libnettest2.hpp): the       *)
(* staged pipeline of Runner::run(), the detached dispatcher workers it    *)
(* spawns, Runner::run_with_index32() and Runner::interrupt().             *)
(*                                                                         *)
(* Threads: one main thread per run() invocation, and the worker threads   *)
(* that run() creates and detaches.  One step of a thread is one action.   *)
(* The event sink of run r is trace[r]: every emit_ev() appends one        *)
(* record; calls of the collaborators (query_bouncer, lookup_ip, ...,      *)
(* nettest.run) are appended too, with a key that starts with "call:", and *)
(* so is the return of nettest.run, with the key "ret:nettest.run", so     *)
(* that claims can order events against calls.  A record also keeps who    *)
(* held the process-wide mutex when it was appended, which orders the      *)
(* events of one run against the status.started and status.end of others.  *)
(*                                                                         *)
(* The worker lambda captures the locals of the measure block of run() by  *)
(* reference.  When the main thread leaves that block while a worker has   *)
(* not finished, every access of the worker to active, i, mutex, cinputs,  *)
(* cbegin and cthis is an access through a dangling reference: a read      *)
(* yields any value; a write is lost, or lands in the locals of the        *)
(* measure block of a later run() whose frame occupies the same storage.   *)
(* The same holds for ctx and collector_base_url, locals of run() itself,  *)
(* once run() has returned.                                                *)
(***************************************************************************)
EXTENDS Integers, Sequences, FiniteSets, TLC

\* ------------------------------------------------------------------ bounds
\* longest settings.inputs list that is enumerated
MaxInputs == 2
\* largest settings.parallelism that is enumerated (0 selects the default)
MaxParallelism == 2
\* largest reading of the steady clock, in seconds since the dispatcher began
MaxElapsed == 1
\* how many indexes workers may claim through dangling references
MaxStale == 1

\* --------------------------------------------------------- program constants
default_parallelism == 3
\* n > UINT32_MAX, on 16-bit halves: UINT32_MAX = 65536 * 65536 - 1
AboveUint32Max(n) == (n \div 65536) >= 65536
\* std::atomic<uint8_t> active: arithmetic modulo 2^8
Uint8Modulus == 256
\* Settings::max_runtime default (TimeoutDefault)
TimeoutDefault == 90

\* the run() invocations of the process (two, so that runs can be concurrent)
Runs == {1, 2}
\* worker slots of one run: parallelism is at most max(default, MaxParallelism)
MaxWorkers == IF MaxParallelism > default_parallelism THEN MaxParallelism ELSE default_parallelism
Workers == 1..MaxWorkers

\* ------------------------------------------------------------- environment
InputNames == <<"a", "b", "c", "d">>
InputList(n) == [k \in 1..n |-> InputNames[k]]

\* EndpointInfo values (type, address, front)
endpoint_type_onion == 1
endpoint_type_cloudfront == 2
endpoint_type_https == 3
EndpointInfo(t, a, f) == [type |-> t, address |-> a, front |-> f]

\* JSON values as nlohmann::json holds them. A number is n, or n and a half
\* when frac: all that modf() and the range checks look at.
Absent == [type |-> "absent"]
JNull == [type |-> "null"]
JBool(b) == [type |-> "boolean", b |-> b]
JNum(n, frac) == [type |-> "number", n |-> n, frac |-> frac]
JStr(s) == [type |-> "string", s |-> s]
JArr(a) == [type |-> "array", a |-> a]
JObj(o) == [type |-> "object", o |-> o]
\* a text that json::parse() rejects
Malformed == [type |-> "malformed"]

\* the object whose members are the chosen ones of f (Absent: not chosen)
Object(f) == JObj([k \in { n \in DOMAIN f : f[n] # Absent } |-> f[k]])

\* doc.at(pointer): the value a JSON pointer leads to, Absent where at() throws
RECURSIVE Lookup(_, _)
Lookup(doc, path) ==
  IF path = << >> THEN doc
  ELSE IF doc.type # "object" THEN Absent
  ELSE IF Head(path) \notin DOMAIN doc.o THEN Absent
  ELSE Lookup(doc.o[Head(path)], Tail(path))

\* ------------------------------------------------------------ query_bouncer
\* the member names of the bouncer protocol, in the order std::map keeps them
Lexical ==
  << "", "0", "1", "address", "backend", "collector", "collector-alternate",
     "dns", "front", "net-tests", "test-helpers", "test-helpers-alternate",
     "type" >>

\* the values a range-for over a JSON value visits: the elements of an
\* array, the values of an object by key, nothing for null, and the value
\* itself for any other value
Elements(v) ==
  CASE v.type = "array" -> v.a
    [] v.type = "object" ->
         LET keys == SelectSeq(Lexical, LAMBDA n : n \in DOMAIN v.o)
         IN  [k \in 1..Len(keys) |-> v.o[keys[k]]]
    [] v.type = "null" -> << >>
    [] OTHER -> << v >>

\* the (key, value) pairs items() visits: array elements under their index
Items(v) ==
  CASE v.type = "array" -> [k \in DOMAIN v.a |-> [key |-> ToString(k - 1), value |-> v.a[k]]]
    [] v.type = "object" ->
         LET keys == SelectSeq(Lexical, LAMBDA n : n \in DOMAIN v.o)
         IN  [k \in 1..Len(keys) |-> [key |-> keys[k], value |-> v.o[keys[k]]]]
    [] v.type = "null" -> << >>
    [] OTHER -> << [key |-> "", value |-> v] >>

\* entry.at(name) exists and converts to std::string
StringAt(entry, name) ==
  /\ entry.type = "object"
  /\ name \in DOMAIN entry.o
  /\ entry.o[name].type = "string"

\* entry.at(name) exists
MemberAt(entry, name) == entry.type = "object" /\ name \in DOMAIN entry.o

\* the curl transfer of the request failed
TransportFailure == [type |-> "failure"]

\* the two outputs of query_bouncer and whether it is still running: an
\* exception of the JSON library ends it where it is, with false
Throw(st) == [st EXCEPT !.ok = FALSE]

\* collectors->push_back(info) for target << >>, and
\* (*test_helpers)[key].push_back(info) for target << key >>
Push(st, target, info) ==
  IF target = << >> THEN [st EXCEPT !.collectors = Append(@, info)]
  ELSE LET key == target[1]
           m == st.test_helpers
       IN  [st EXCEPT !.test_helpers =
              [n \in DOMAIN m \cup { key } |->
                 IF n = key
                   THEN (IF key \in DOMAIN m THEN m[key] ELSE << >>) \o << info >>
                   ELSE m[n]]]

\* the body of the two loops over alternate endpoints: https and cloudfront
\* elements are pushed, any other type is passed over
Alternate(st, target, entry) ==
  IF ~MemberAt(entry, "type") THEN Throw(st)
  ELSE IF entry.o["type"] = JStr("https")
    THEN IF ~StringAt(entry, "address") THEN Throw(st)
         ELSE Push(st, target, EndpointInfo(endpoint_type_https, entry.o["address"].s, ""))
  ELSE IF entry.o["type"] = JStr("cloudfront")
    THEN IF ~StringAt(entry, "address") \/ ~StringAt(entry, "front") THEN Throw(st)
         ELSE Push(st, target, EndpointInfo(endpoint_type_cloudfront,
                                            entry.o["address"].s, entry.o["front"].s))
  ELSE st

RECURSIVE Alternates(_, _, _, _)
Alternates(st, target, entries, k) ==
  IF ~st.ok \/ k > Len(entries) THEN st
  ELSE Alternates(Alternate(st, target, entries[k]), target, entries, k + 1)

\* the loop over test-helpers: an onion endpoint under each key
RECURSIVE Helpers(_, _, _)
Helpers(st, items, k) ==
  IF ~st.ok \/ k > Len(items) THEN st
  ELSE Helpers(IF items[k].value.type # "string" THEN Throw(st)
               ELSE Push(st, << items[k].key >>,
                         EndpointInfo(endpoint_type_onion, items[k].value.s, "")),
               items, k + 1)

\* the loop over test-helpers-alternate
RECURSIVE HelperAlternates(_, _, _)
HelperAlternates(st, items, k) ==
  IF ~st.ok \/ k > Len(items) THEN st
  ELSE HelperAlternates(Alternates(st, << items[k].key >>, Elements(items[k].value), 1),
                        items, k + 1)

\* the body of the loop over net-tests
NetTest(st, entry) ==
  LET primary ==
        IF ~StringAt(entry, "collector") THEN Throw(st)
        ELSE Push(st, << >>, EndpointInfo(endpoint_type_onion, entry.o["collector"].s, ""))
      alternates ==
        IF ~primary.ok THEN primary
        ELSE IF ~MemberAt(entry, "collector-alternate") THEN Throw(primary)
        ELSE Alternates(primary, << >>, Elements(entry.o["collector-alternate"]), 1)
      helpers ==
        IF ~alternates.ok THEN alternates
        ELSE IF ~MemberAt(entry, "test-helpers") THEN Throw(alternates)
        ELSE Helpers(alternates, Items(entry.o["test-helpers"]), 1)
  IN  IF ~helpers.ok THEN helpers
      ELSE IF ~MemberAt(entry, "test-helpers-alternate") THEN Throw(helpers)
      ELSE HelperAlternates(helpers, Items(entry.o["test-helpers-alternate"]), 1)

RECURSIVE NetTests(_, _, _)
NetTests(st, entries, k) ==
  IF ~st.ok \/ k > Len(entries) THEN st
  ELSE NetTests(NetTest(st, entries[k]), entries, k + 1)

\* a query_bouncer that appends to what its outputs hold
query_bouncer_appending(collectors, test_helpers, response) ==
  LET st == [ok |-> TRUE, collectors |-> collectors, test_helpers |-> test_helpers]
  IN  IF response = TransportFailure \/ response = Malformed THEN Throw(st)
      ELSE IF ~MemberAt(response, "net-tests") THEN Throw(st)
      ELSE NetTests(st, Elements(response.o["net-tests"]), 1)

\* query_bouncer(..., collectors, test_helpers, info, err) where the bouncer
\* answers with response: both outputs are cleared, whatever they held
query_bouncer(collectors, test_helpers, response) ==
  LET st == [ok |-> TRUE, collectors |-> << >>, test_helpers |-> << >>]
  IN  IF response = TransportFailure \/ response = Malformed THEN Throw(st)
      ELSE IF ~MemberAt(response, "net-tests") THEN Throw(st)
      ELSE NetTests(st, Elements(response.o["net-tests"]), 1)

\* the answers of the bouncer that run() is studied on: a full answer, a
\* transport failure, and an answer whose element lacks collector-alternate
BouncerResponses ==
  { JObj([n \in { "net-tests" } |-> JArr(<< e >>)]) :
      e \in { JObj("collector" :> JStr("httpo://c.onion")
                   @@ "collector-alternate" :>
                        JArr(<< JObj("type" :> JStr("https")
                                     @@ "address" :> JStr("https://c.example")) >>)
                   @@ "test-helpers" :> JObj(<< >>)
                   @@ "test-helpers-alternate" :> JObj(<< >>)),
              JObj("collector" :> JStr("httpo://c.onion")) } }
  \cup { TransportFailure }

\* what a bouncer query leaves in ctx.collectors and ctx.test_helpers
BouncerOutcomes == { query_bouncer(<< >>, << >>, rsp) : rsp \in BouncerResponses }

\* answers of a bouncer that knows a test helper with several endpoints: an
\* onion address and two alternates, in both orders
HelperResponses ==
  { JObj([n \in { "net-tests" } |->
            JArr(<< JObj("collector" :> JStr("httpo://c.onion")
                         @@ "collector-alternate" :> JArr(<< >>)
                         @@ "test-helpers" :>
                              JObj([h \in { "backend" } |-> JStr("httpo://h.onion")])
                         @@ "test-helpers-alternate" :>
                              JObj([h \in { "backend" } |-> JArr(alternates)])) >>)]) :
      alternates \in
        { << JObj("type" :> JStr("https") @@ "address" :> JStr("https://h.example")),
             JObj("type" :> JStr("cloudfront") @@ "address" :> JStr("https://h.cloudfront.net")
                  @@ "front" :> JStr("front.example")) >>,
          << JObj("type" :> JStr("cloudfront") @@ "address" :> JStr("https://h.cloudfront.net")
                  @@ "front" :> JStr("front.example")),
             JObj("type" :> JStr("https") @@ "address" :> JStr("https://h.example")) >> } }

\* what a bouncer query can leave in ctx for a run with faults f: the answer
\* of the bouncer is not in the hands of the Runner
BouncerOutcomesFor(f) ==
  IF "helpers" \in f
    THEN { query_bouncer(<< >>, << >>, rsp) : rsp \in HelperResponses }
    ELSE BouncerOutcomes

\* class Settings, the members run() and run_with_index32() read
DefaultSettings ==
  [ no_bouncer |-> FALSE, probe_ip |-> "", no_ip_lookup |-> FALSE,
    probe_asn |-> "", probe_network_name |-> "", no_asn_lookup |-> FALSE,
    probe_cc |-> "", no_cc_lookup |-> FALSE, no_resolver_lookup |-> FALSE,
    no_collector |-> FALSE, collector_base_url |-> "",
    inputs |-> << >>, parallelism |-> 0, randomize_input |-> TRUE,
    max_runtime |-> TimeoutDefault,
    save_real_probe_asn |-> TRUE, save_real_probe_ip |-> FALSE,
    save_real_probe_cc |-> TRUE, save_real_resolver_ip |-> TRUE,
    software_name |-> "libnettest2", software_version |-> "0.6.0" ]

\* every lookup and the collector switched off (end-to-end scenario 1)
QuietSettings ==
  [ DefaultSettings EXCEPT !.no_bouncer = TRUE, !.no_ip_lookup = TRUE,
      !.no_asn_lookup = TRUE, !.no_cc_lookup = TRUE,
      !.no_resolver_lookup = TRUE, !.no_collector = TRUE,
      !.randomize_input = FALSE ]

VARIABLES
  arg,           \* the argument of the function under study (a settings
                 \* document, a bouncer response, random words), or NoArg
  result,        \* what the function made of arg, Pending before the call
  no_data_race,  \* on_event's static mutex: the threads that hold it
  clog,          \* what the default on_event has written to std::clog
  sink,          \* where each thread is in emit_ev / on_event, and the event
                 \* it is delivering
  todo,          \* runs the embedder has not called yet
  settings,      \* settings[r]: the Settings of the Runner of run r
  needs_input,   \* needs_input[r]: nettest_.needs_input() of run r
  faults,        \* faults[r]: what happens to run r from outside: "nettest"
                 \* (nettest_.run returns false), "serialize" (dump throws),
                 \* "update" (update_report fails), "interrupt" (the
                 \* embedder calls interrupt() while run() executes)
  interrupted,   \* interrupted[r]: Runner::interrupted_
  global_mutex,  \* holder of global_mutex(): a run, or 0
  pc,            \* pc[r]: where the main thread of run r is
  ctx,           \* ctx[r]: NettestContext of run r
  collector_base_url, \* the local of run()
  inputs,        \* inputs[r]: the local vector of the measure block
  parallelism,   \* parallelism[r]: the local of the measure block
  spawned,       \* spawned[r]: the loop variable j of the spawning loop
  active,        \* active[r]: std::atomic<uint8_t> active
  i,             \* i[r]: std::atomic<uint64_t> i, the next index
  mutex,         \* mutex[r]: holder of the dispatcher mutex, << run, worker >> or << >>
  alive,         \* alive[r]: the locals of the measure block exist
  elapsed,       \* elapsed[r]: last reading of steady_clock::now() - begin
  stale,         \* indexes claimed so far through dangling references
  wpc,           \* wpc[r][w]: where worker w of run r is
  widx,          \* widx[r][w]: the local idx of the worker
  measurement,   \* measurement[r][w]: the local record of run_with_index32
  trace,         \* trace[r]: the events run r delivered to the sink, and its calls
  info           \* info[r]: BytesInfo info of run r (bytes_down; bytes_up alike)

vars == << todo, arg, result, no_data_race, clog, sink, settings, needs_input, faults, interrupted, global_mutex, pc, ctx,
           collector_base_url, inputs, parallelism, spawned, active, i, mutex,
           alive, elapsed, stale, wpc, widx, measurement, trace, info >>

\* ------------------------------------------------------------------ events
\* emit_ev(key, value): the record the sink receives, with the emitting thread
\* (th), the holder of global_mutex() at that moment, and, for
\* status.measurement_start, whether interrupt() had been called before it;
\* val holds the members of the value that are modelled (none by default)
Ev(r, th, key, idx, pct) ==
  [run |-> r, th |-> th, key |-> key, idx |-> idx, pct |-> pct,
   holder |-> global_mutex, intr |-> FALSE, val |-> << >>]
\* an event, or a call, with modelled members or arguments
With(e, v) == [e EXCEPT !.val = v]
\* thread 0 is the main thread of the run, thread w > 0 its worker w
MainEv(r, key) == Ev(r, 0, key, -1, -1)
\* percentages are kept as integers: 10 stands for 0.1, 100 for 1.0
Progress(r, pct) == Ev(r, 0, "status.progress", -1, pct)
\* LIBNETTEST2_EMIT_WARNING at the default log level (warning)
Warning(r, th) == Ev(r, th, "log", -1, -1)
Call(r, th, name, idx) == Ev(r, th, name, idx, -1)

EmptyCtx ==
  [ collectors |-> << >>, test_helpers |-> << >>, probe_asn |-> "", probe_cc |-> "",
    probe_ip |-> "", probe_network_name |-> "", report_id |-> "", resolver_ip |-> "" ]

\* all permutations of a sequence (std::shuffle can produce each of them)
Perms(s) ==
  { [k \in 1..Len(s) |-> s[f[k]]] :
      f \in { g \in [1..Len(s) -> 1..Len(s)] : \A a, b \in 1..Len(s) : a # b => g[a] # g[b] } }

\* ------------------------------------------------- collaborators' outcomes
\* lookup_ip: clears *ip first; on success *ip is the extracted text
IpOutcomes == { [ok |-> TRUE, ip |-> "93.184.216.34"], [ok |-> FALSE, ip |-> ""] }
\* lookup_asn: clears both outputs first; a failure on the organization field
\* leaves the number already written
AsnOutcomes ==
  { [ok |-> TRUE, asn |-> "AS30722", name |-> "Vodafone"],
    [ok |-> FALSE, asn |-> "", name |-> ""],
    [ok |-> FALSE, asn |-> "AS30722", name |-> ""] }
\* lookup_cc: clears *cc first
CcOutcomes == { [ok |-> TRUE, cc |-> "IT"], [ok |-> FALSE, cc |-> ""] }
\* lookup_resolver_ip: clears *ip first
ResolverOutcomes == { [ok |-> TRUE, ip |-> "8.8.8.8"], [ok |-> FALSE, ip |-> ""] }
\* open_report: clears *report_id first
OpenOutcomes == { [ok |-> TRUE, id |-> "rid"], [ok |-> FALSE, id |-> ""] }

\* ------------------------------------------------------------ Runner::run
\* the collaborators that transfer data and are given the BytesInfo of the run
TransferCalls ==
  { "call:query_bouncer", "call:lookup_ip", "call:lookup_resolver_ip",
    "call:open_report", "call:update_report", "call:close_report",
    "call:nettest.run" }
\* what one call adds to the counter (the amount lookup_resolver_ip accounts)
TransferBytes == 512
\* the bytes the calls among evs transfer
Bytes(evs) ==
  TransferBytes * Cardinality({ k \in DOMAIN evs : evs[k].key \in TransferCalls })
\* the BytesInfo an increment of a thread of run r reaches: info is a local
\* of run(), the workers hold a pointer to it; once run() has returned the
\* increment is lost (0) or lands in the frame of another run()
InfoReach(r) ==
  IF pc[r] # "done" THEN { r }
  ELSE { 0 } \cup { q \in Runs \ { r } : pc[q] \notin {"idle", "done"} }
\* "info->bytes_down += n" (atomic)
Account(r, n) ==
  IF n = 0 THEN info' = info
  ELSE \E t \in InfoReach(r) :
         info' = IF t = 0 THEN info ELSE [info EXCEPT ![t] = @ + n]
\* the records evs are appended to the sink of run r, and the transfers of
\* the calls among them are accounted
Emit(r, evs) ==
  /\ trace' = [trace EXCEPT ![r] = @ \o evs]
  /\ Account(r, Bytes(evs))

\* the embedder calls run(): status.queued, then the thread blocks on the mutex
RunQueued(r) ==
  /\ r \in todo
  /\ pc[r] = "idle"
  /\ todo' = todo \ {r}
  /\ pc' = [pc EXCEPT ![r] = "lock"]
  /\ Emit(r, << MainEv(r, "status.queued") >>)
  /\ UNCHANGED << arg, result, no_data_race, clog, sink, settings, needs_input, faults, interrupted, global_mutex, ctx,
                  collector_base_url, inputs, parallelism, spawned, active, i,
                  mutex, alive, elapsed, stale, wpc, widx, measurement >>

\* std::unique_lock<std::mutex> _{global_mutex()} ; status.started
RunStarted(r) ==
  /\ pc[r] = "lock"
  /\ global_mutex = 0
  /\ global_mutex' = r
  /\ ctx' = [ctx EXCEPT ![r] = EmptyCtx]
  /\ pc' = [pc EXCEPT ![r] = "bouncer"]
  /\ Emit(r, << [MainEv(r, "status.started") EXCEPT !.holder = r] >>)
  /\ UNCHANGED << todo, arg, result, no_data_race, clog, sink, settings, needs_input, faults, interrupted,
                  collector_base_url, inputs, parallelism, spawned, active, i,
                  mutex, alive, elapsed, stale, wpc, widx, measurement >>

MainFrame == << todo, arg, result, no_data_race, clog, sink, settings, needs_input, faults, interrupted, global_mutex,
                inputs, parallelism, spawned, active, i, mutex, alive,
                elapsed, stale, wpc, widx, measurement >>

\* a bouncer block that reports its progress before it queries the bouncer
StageBouncerProgressFirst(r) ==
  /\ pc[r] = "bouncer"
  /\ IF settings[r].no_bouncer
       THEN /\ Emit(r, << Progress(r, 10) >>)
            /\ ctx' = ctx
       ELSE \E out \in BouncerOutcomesFor(faults[r]) :
              /\ ctx' = [ctx EXCEPT ![r].collectors = out.collectors,
                                    ![r].test_helpers = out.test_helpers]
              /\ Emit(r, << Progress(r, 10), Call(r, 0, "call:query_bouncer", -1) >>
                      \o (IF out.ok THEN << >> ELSE << Warning(r, 0) >>))
  /\ pc' = [pc EXCEPT ![r] = "probe_ip"]
  /\ UNCHANGED MainFrame
  /\ UNCHANGED collector_base_url

\* the bouncer block and status.progress 0.1
StageBouncer(r) ==
  /\ pc[r] = "bouncer"
  /\ IF settings[r].no_bouncer
       THEN /\ Emit(r, << Progress(r, 10) >>)
            /\ ctx' = ctx
       ELSE \E out \in BouncerOutcomesFor(faults[r]) :
              /\ ctx' = [ctx EXCEPT ![r].collectors = out.collectors,
                                    ![r].test_helpers = out.test_helpers]
              /\ Emit(r, << Call(r, 0, "call:query_bouncer", -1) >>
                      \o (IF out.ok THEN << >> ELSE << Warning(r, 0) >>)
                      \o << Progress(r, 10) >>)
  /\ pc' = [pc EXCEPT ![r] = "probe_ip"]
  /\ UNCHANGED MainFrame
  /\ UNCHANGED collector_base_url

\* the probe_ip block
StageProbeIp(r) ==
  /\ pc[r] = "probe_ip"
  /\ IF settings[r].probe_ip = ""
       THEN IF ~settings[r].no_ip_lookup
              THEN \E out \in IpOutcomes :
                     /\ ctx' = [ctx EXCEPT ![r].probe_ip = out.ip]
                     /\ Emit(r, << Call(r, 0, "call:lookup_ip", -1) >>
                             \o (IF out.ok THEN << >>
                                 ELSE << Warning(r, 0), MainEv(r, "failure.ip_lookup") >>))
              ELSE /\ ctx' = [ctx EXCEPT ![r].probe_ip = "127.0.0.1"]
                   /\ UNCHANGED << trace, info >>
       ELSE /\ ctx' = [ctx EXCEPT ![r].probe_ip = settings[r].probe_ip]
            /\ UNCHANGED << trace, info >>
  /\ pc' = [pc EXCEPT ![r] = "probe_asn"]
  /\ UNCHANGED MainFrame
  /\ UNCHANGED collector_base_url

\* a probe_asn block that lets no_asn_lookup, and not the configured
\* probe_asn, decide whether lookup_asn is called
StageProbeAsnLookingUpFirst(r) ==
  /\ pc[r] = "probe_asn"
  /\ IF ~settings[r].no_asn_lookup
       THEN \E out \in AsnOutcomes :
              /\ ctx' = [ctx EXCEPT ![r].probe_asn = out.asn,
                                    ![r].probe_network_name = out.name]
              /\ Emit(r, << With(Call(r, 0, "call:lookup_asn", -1), [ip |-> ctx[r].probe_ip]) >>
                      \o (IF out.ok THEN << >>
                          ELSE << Warning(r, 0), Warning(r, 0),
                                  MainEv(r, "failure.asn_lookup") >>))
       ELSE IF settings[r].probe_asn = ""
              THEN /\ ctx' = [ctx EXCEPT ![r].probe_asn = "AS0"]
                   /\ UNCHANGED << trace, info >>
              ELSE /\ ctx' = [ctx EXCEPT ![r].probe_network_name = settings[r].probe_network_name,
                                         ![r].probe_asn = settings[r].probe_asn]
                   /\ UNCHANGED << trace, info >>
  /\ pc' = [pc EXCEPT ![r] = "probe_cc"]
  /\ UNCHANGED MainFrame
  /\ UNCHANGED collector_base_url

\* the probe_asn block; lookup_asn warns by itself on every failure, and its
\* call is recorded with the address it is given
StageProbeAsn(r) ==
  /\ pc[r] = "probe_asn"
  /\ IF settings[r].probe_asn = ""
       THEN IF ~settings[r].no_asn_lookup
              THEN \E out \in AsnOutcomes :
                     /\ ctx' = [ctx EXCEPT ![r].probe_asn = out.asn,
                                           ![r].probe_network_name = out.name]
                     /\ Emit(r, << With(Call(r, 0, "call:lookup_asn", -1), [ip |-> ctx[r].probe_ip]) >>
                             \o (IF out.ok THEN << >>
                                 ELSE << Warning(r, 0), Warning(r, 0),
                                         MainEv(r, "failure.asn_lookup") >>))
              ELSE /\ ctx' = [ctx EXCEPT ![r].probe_asn = "AS0"]
                   /\ UNCHANGED << trace, info >>
       ELSE /\ ctx' = [ctx EXCEPT ![r].probe_network_name = settings[r].probe_network_name,
                                  ![r].probe_asn = settings[r].probe_asn]
            /\ UNCHANGED << trace, info >>
  /\ pc' = [pc EXCEPT ![r] = "probe_cc"]
  /\ UNCHANGED MainFrame
  /\ UNCHANGED collector_base_url

\* status.geoip_lookup, whose value is read from ctx
GeoipLookup(r, c) ==
  With(MainEv(r, "status.geoip_lookup"),
       [probe_cc |-> c.probe_cc, probe_asn |-> c.probe_asn, probe_ip |-> c.probe_ip,
        probe_network_name |-> c.probe_network_name])

\* the probe_cc block, status.progress 0.2 and status.geoip_lookup
StageProbeCc(r) ==
  /\ pc[r] = "probe_cc"
  /\ IF settings[r].probe_cc = ""
       THEN IF ~settings[r].no_cc_lookup
              THEN \E out \in CcOutcomes :
                     /\ ctx' = [ctx EXCEPT ![r].probe_cc = out.cc]
                     /\ Emit(r, << With(Call(r, 0, "call:lookup_cc", -1), [ip |-> ctx[r].probe_ip]) >>
                             \o (IF out.ok THEN << >>
                                 ELSE << Warning(r, 0), Warning(r, 0),
                                         MainEv(r, "failure.cc_lookup") >>)
                             \o << Progress(r, 20), GeoipLookup(r, ctx'[r]) >>)
              ELSE /\ ctx' = [ctx EXCEPT ![r].probe_cc = "ZZ"]
                   /\ Emit(r, << Progress(r, 20), GeoipLookup(r, ctx'[r]) >>)
       ELSE /\ ctx' = [ctx EXCEPT ![r].probe_cc = settings[r].probe_cc]
            /\ Emit(r, << Progress(r, 20), GeoipLookup(r, ctx'[r]) >>)
  /\ pc' = [pc EXCEPT ![r] = "resolver"]
  /\ UNCHANGED MainFrame
  /\ UNCHANGED collector_base_url

\* status.resolver_lookup, whose value is read from ctx
ResolverLookup(r, c) ==
  With(MainEv(r, "status.resolver_lookup"), [resolver_ip |-> c.resolver_ip])

\* a resolver block that gives the run up when the lookup fails
StageResolverFatal(r) ==
  /\ pc[r] = "resolver"
  /\ IF ~settings[r].no_resolver_lookup
       THEN \E out \in ResolverOutcomes :
              /\ ctx' = [ctx EXCEPT ![r].resolver_ip = out.ip]
              /\ Emit(r, << Call(r, 0, "call:lookup_resolver_ip", -1) >>
                      \o (IF out.ok
                            THEN << Progress(r, 30), ResolverLookup(r, ctx'[r]) >>
                            ELSE << Warning(r, 0), MainEv(r, "failure.resolver_lookup") >>))
              /\ pc' = [pc EXCEPT ![r] = IF out.ok THEN "open_report" ELSE "end"]
       ELSE /\ ctx' = ctx
            /\ Emit(r, << Progress(r, 30), ResolverLookup(r, ctx'[r]) >>)
            /\ pc' = [pc EXCEPT ![r] = "open_report"]
  /\ UNCHANGED MainFrame
  /\ UNCHANGED collector_base_url

\* the resolver block, status.progress 0.3 and status.resolver_lookup
StageResolver(r) ==
  /\ pc[r] = "resolver"
  /\ IF ~settings[r].no_resolver_lookup
       THEN \E out \in ResolverOutcomes :
              /\ ctx' = [ctx EXCEPT ![r].resolver_ip = out.ip]
              /\ Emit(r, << Call(r, 0, "call:lookup_resolver_ip", -1) >>
                      \o (IF out.ok THEN << >>
                          ELSE << Warning(r, 0), MainEv(r, "failure.resolver_lookup") >>)
                      \o << Progress(r, 30), ResolverLookup(r, ctx'[r]) >>)
       ELSE /\ ctx' = ctx
            /\ Emit(r, << Progress(r, 30), ResolverLookup(r, ctx'[r]) >>)
  /\ pc' = [pc EXCEPT ![r] = "open_report"]
  /\ UNCHANGED MainFrame
  /\ UNCHANGED collector_base_url

\* a call of open_report, update_report or close_report, with the collector
\* base URL and the report id it is given (open_report is given none)
ReportCall(r, th, name, idx, url, id) ==
  With(Call(r, th, name, idx), [collector_base_url |-> url, report_id |-> id])

\* the first discovered collector of type https, "" when there is none
FirstHttpsCollector(collectors) ==
  LET hits == { k \in 1..Len(collectors) : collectors[k].type = endpoint_type_https }
  IN  IF hits = {} THEN ""
      ELSE collectors[CHOOSE k \in hits : \A m \in hits : k <= m].address

\* the open-report block and status.progress 0.4; open_report is called only
\* in the branch where settings_.collector_base_url is empty
StageOpenReport(r) ==
  /\ pc[r] = "open_report"
  /\ IF ~settings[r].no_collector
       THEN IF settings[r].collector_base_url = ""
              THEN \E out \in OpenOutcomes :
                     /\ collector_base_url' =
                          [collector_base_url EXCEPT ![r] = FirstHttpsCollector(ctx[r].collectors)]
                     /\ ctx' = [ctx EXCEPT ![r].report_id = out.id]
                     /\ Emit(r, << ReportCall(r, 0, "call:open_report", -1,
                                               FirstHttpsCollector(ctx[r].collectors), "") >>
                             \o (IF out.ok
                                   THEN << With(MainEv(r, "status.report_create"),
                                                [report_id |-> out.id]) >>
                                 ELSE << Warning(r, 0), MainEv(r, "failure.report_create") >>)
                             \o << Progress(r, 40) >>)
              ELSE /\ collector_base_url' =
                        [collector_base_url EXCEPT ![r] = settings[r].collector_base_url]
                   /\ ctx' = ctx
                   /\ Emit(r, << Progress(r, 40) >>)
       ELSE /\ collector_base_url' = [collector_base_url EXCEPT ![r] = ""]
            /\ ctx' = ctx
            /\ Emit(r, << Progress(r, 40) >>)
  /\ pc' = [pc EXCEPT ![r] = "prepare"]
  /\ UNCHANGED MainFrame

\* ------------------------------------------------ the measure block of run
\* uint8_t parallelism = needs_input ? (settings > 0 ? settings : default) : 1
Parallelism(needs, configured) ==
  IF ~needs THEN 1
  ELSE IF configured > 0 THEN configured ELSE default_parallelism

\* the list the dispatcher works on, before shuffling
PreparedInputs(needs, configured) == IF needs THEN configured ELSE << "" >>

\* from "do {" to the spawning loop: the early break, the inputs vector, the
\* shuffle, the shared locals of the workers
PrepareInputs(r) ==
  /\ pc[r] = "prepare"
  /\ IF needs_input[r] /\ settings[r].inputs = << >>
       THEN /\ Emit(r, << Warning(r, 0) >>)
            /\ pc' = [pc EXCEPT ![r] = "end"]
            /\ UNCHANGED << inputs, parallelism, spawned, active, i, mutex, alive, elapsed >>
       ELSE /\ \E shuffled \in (IF settings[r].randomize_input
                                  THEN Perms(PreparedInputs(needs_input[r], settings[r].inputs))
                                  ELSE { PreparedInputs(needs_input[r], settings[r].inputs) }) :
                 inputs' = [inputs EXCEPT ![r] = shuffled]
            /\ Emit(r, IF ~needs_input[r] /\ settings[r].inputs # << >>
                      THEN << Warning(r, 0) >> ELSE << >>)
            /\ parallelism' = [parallelism EXCEPT
                                 ![r] = Parallelism(needs_input[r], settings[r].parallelism)]
            /\ active' = [active EXCEPT ![r] = 0]
            /\ i' = [i EXCEPT ![r] = 0]
            /\ mutex' = [mutex EXCEPT ![r] = << >>]
            /\ elapsed' = [elapsed EXCEPT ![r] = 0]
            /\ spawned' = [spawned EXCEPT ![r] = 0]
            /\ alive' = [alive EXCEPT ![r] = TRUE]
            /\ pc' = [pc EXCEPT ![r] = "spawn"]
  /\ UNCHANGED << todo, arg, result, no_data_race, clog, sink, settings, needs_input, faults, interrupted, global_mutex, ctx,
                  collector_base_url, stale, wpc, widx, measurement >>

\* one turn of "for (uint8_t j = 0; j < parallelism; ++j)": the thread is
\* created and detached; it has not run active += 1 yet
SpawnWorker(r) ==
  /\ pc[r] = "spawn"
  /\ spawned[r] < parallelism[r]
  /\ wpc' = [wpc EXCEPT ![r][spawned[r] + 1] = "born"]
  /\ spawned' = [spawned EXCEPT ![r] = spawned[r] + 1]
  /\ pc' = [pc EXCEPT ![r] = IF spawned[r] + 1 < parallelism[r] THEN "spawn" ELSE "wait"]
  /\ UNCHANGED << todo, arg, result, no_data_race, clog, sink, settings, needs_input, faults, interrupted, global_mutex, ctx,
                  collector_base_url, inputs, parallelism, active, i, mutex,
                  alive, elapsed, stale, widx, measurement, trace,
                  info >>

\* "while (active > 0) sleep": the loop is left when a test finds active = 0
WaitWorkers(r) ==
  /\ pc[r] = "wait"
  /\ active[r] = 0
  /\ pc' = [pc EXCEPT ![r] = "complete"]
  /\ UNCHANGED << todo, arg, result, no_data_race, clog, sink, settings, needs_input, faults, interrupted, global_mutex, ctx,
                  collector_base_url, inputs, parallelism, spawned, active, i,
                  mutex, alive, elapsed, stale, wpc, widx, measurement, trace,
                  info >>

\* status.progress 0.9
MeasurementComplete(r) ==
  /\ pc[r] = "complete"
  /\ Emit(r, << Progress(r, 90) >>)
  /\ pc' = [pc EXCEPT ![r] = "close"]
  /\ UNCHANGED << todo, arg, result, no_data_race, clog, sink, settings, needs_input, faults, interrupted, global_mutex, ctx,
                  collector_base_url, inputs, parallelism, spawned, active, i,
                  mutex, alive, elapsed, stale, wpc, widx, measurement >>

\* the close-report block, status.progress 1.0 and the end of the do block,
\* where active, i, mutex, inputs, begin and cthis are destroyed
StageCloseReport(r) ==
  /\ pc[r] = "close"
  /\ IF ~settings[r].no_collector /\ ctx[r].report_id # ""
       THEN \E ok \in BOOLEAN :
              Emit(r, << ReportCall(r, 0, "call:close_report", -1,
                                    collector_base_url[r], ctx[r].report_id) >>
                   \o (IF ok THEN << MainEv(r, "status.report_close") >>
                       ELSE << Warning(r, 0), MainEv(r, "failure.report_close") >>)
                   \o << Progress(r, 100) >>)
       ELSE IF ctx[r].report_id = ""
              THEN Emit(r, << MainEv(r, "failure.report_close"), Progress(r, 100) >>)
              ELSE Emit(r, << Progress(r, 100) >>)
  /\ alive' = [alive EXCEPT ![r] = FALSE]
  /\ pc' = [pc EXCEPT ![r] = "end"]
  /\ UNCHANGED << todo, arg, result, no_data_race, clog, sink, settings, needs_input, faults, interrupted, global_mutex, ctx,
                  collector_base_url, inputs, parallelism, spawned, active, i,
                  mutex, elapsed, stale, wpc, widx, measurement >>

\* "bytes / 1024.0": the whole kilobytes and the bytes that remain
Kb(bytes) == << bytes \div 1024, bytes % 1024 >>

\* status.end, return true: the unique_lock on global_mutex() is released and
\* info, ctx, collector_base_url and test_start_time are destroyed
RunEnd(r) ==
  /\ pc[r] = "end"
  /\ Emit(r, << With(MainEv(r, "status.end"),
                      [failure |-> "", downloaded_kb |-> Kb(info[r]),
                       uploaded_kb |-> Kb(info[r])]) >>)
  /\ global_mutex' = 0
  /\ pc' = [pc EXCEPT ![r] = "done"]
  /\ UNCHANGED << todo, arg, result, no_data_race, clog, sink, settings, needs_input, faults, interrupted, ctx,
                  collector_base_url, inputs, parallelism, spawned, active, i,
                  mutex, alive, elapsed, stale, wpc, widx, measurement >>

\* Runner::interrupt(), called by the embedder from any thread at any time
Interrupt(r) ==
  /\ "interrupt" \in faults[r]
  /\ ~interrupted[r]
  /\ pc[r] # "done"
  /\ interrupted' = [interrupted EXCEPT ![r] = TRUE]
  /\ UNCHANGED << todo, arg, result, no_data_race, clog, sink, settings, needs_input, faults, global_mutex, pc, ctx,
                  collector_base_url, inputs, parallelism, spawned, active, i,
                  mutex, alive, elapsed, stale, wpc, widx, measurement, trace,
                  info >>

\* ------------------------------------------------------ the worker lambda
WorkerFrame == << todo, arg, result, no_data_race, clog, sink, settings, needs_input, faults, interrupted, global_mutex, pc, ctx,
                  collector_base_url, inputs, parallelism, spawned, alive >>

\* the storage a write of a worker of run r reaches through the captured
\* references to active, i and mutex: the locals of its own measure block
\* while they exist; afterwards freed storage (0: the write is lost), or the
\* locals of the measure block of another run() that occupies the same frame
Reach(r) == IF alive[r] THEN { r } ELSE { 0 } \cup { q \in Runs \ { r } : alive[q] }

\* "active += n" on uint8_t, on the storage t
AddActive(t, n) ==
  active' = IF t = 0 THEN active
            ELSE [active EXCEPT ![t] = (active[t] + Uint8Modulus + n) % Uint8Modulus]

\* "active += 1", the first statement of the thread
WorkerBegin(r, w) ==
  /\ wpc[r][w] = "born"
  /\ \E t \in Reach(r) : AddActive(t, 1)
  /\ wpc' = [wpc EXCEPT ![r][w] = "loop"]
  /\ UNCHANGED << WorkerFrame, i, mutex, elapsed, stale, widx, measurement, trace,
                  info >>

\* the values "cthis->interrupted_" can yield: the flag, or anything once the
\* pointer cthis is destroyed
InterruptedSeen(r) == IF alive[r] THEN { interrupted[r] } ELSE BOOLEAN

\* "while (!cthis->interrupted_)"
WorkerLoop(r, w) ==
  /\ wpc[r][w] = "loop"
  /\ \E seen \in InterruptedSeen(r) :
       wpc' = [wpc EXCEPT ![r][w] = IF seen THEN "exit" ELSE "lock"]
  /\ UNCHANGED << WorkerFrame, active, i, mutex, elapsed, stale, widx, measurement, trace,
                  info >>

\* "std::unique_lock<std::mutex> _{mutex}": blocks while the mutex is held
WorkerLock(r, w) ==
  /\ wpc[r][w] = "lock"
  /\ \E t \in Reach(r) :
       IF t = 0 THEN mutex' = mutex
       ELSE /\ mutex[t] = << >>
            /\ mutex' = [mutex EXCEPT ![t] = << r, w >>]
  /\ wpc' = [wpc EXCEPT ![r][w] = "claim"]
  /\ UNCHANGED << WorkerFrame, active, i, elapsed, stale, widx, measurement, trace,
                  info >>

\* the destructor of the unique_lock of worker w of run r
Unlocked(r, w) == [q \in Runs |-> IF mutex[q] = << r, w >> THEN << >> ELSE mutex[q]]

\* "if (i > UINT32_MAX || i >= cinputs.size()) break; idx = (uint32_t)i;
\* i += 1;" and the end of the block that holds the lock.  On destroyed
\* locals the test and the value read are arbitrary.
WorkerClaim(r, w) ==
  /\ wpc[r][w] = "claim"
  /\ mutex' = Unlocked(r, w)
  /\ IF alive[r]
       THEN IF AboveUint32Max(i[r]) \/ i[r] >= Len(inputs[r])
              THEN /\ wpc' = [wpc EXCEPT ![r][w] = "exit"]
                   /\ UNCHANGED << widx, stale, i >>
              ELSE /\ widx' = [widx EXCEPT ![r][w] = i[r]]
                   /\ i' = [i EXCEPT ![r] = i[r] + 1]
                   /\ wpc' = [wpc EXCEPT ![r][w] = "check"]
                   /\ UNCHANGED stale
       ELSE \E garbage \in {-1, 0, MaxInputs} :
              IF garbage < 0 \/ stale >= MaxStale
                THEN /\ wpc' = [wpc EXCEPT ![r][w] = "exit"]
                     /\ UNCHANGED << widx, stale, i >>
                ELSE /\ widx' = [widx EXCEPT ![r][w] = garbage]
                     /\ stale' = stale + 1
                     /\ \E t \in Reach(r) :
                          i' = IF t = 0 THEN i ELSE [i EXCEPT ![t] = i[t] + 1]
                     /\ wpc' = [wpc EXCEPT ![r][w] = "check"]
  /\ UNCHANGED << WorkerFrame, active, elapsed, measurement, trace,
                  info >>

\* "elapsed.count() >= settings_.max_runtime * 0.9", in tenths
Expired(t, max_runtime) == max_runtime >= 0 /\ 10 * t >= 9 * max_runtime

\* the readings of the steady clock from now on: any value from the last
\* reading up to the bound; when no reading up to the bound reaches the
\* budget, the reading changes nothing and the last one is kept
ClockReadings(r) ==
  IF Expired(MaxElapsed, settings[r].max_runtime)
    THEN elapsed[r]..MaxElapsed
    ELSE { elapsed[r] }

\* a text that a read through a dangling reference yields when the storage
\* no longer holds what was written there
Garbage == "?"

\* ctx read after its storage was reused: no member is what it was
Clobbered(c) ==
  [ collectors |-> << >>, test_helpers |-> << >>, probe_asn |-> Garbage,
    probe_cc |-> Garbage,
    probe_ip |-> Garbage, probe_network_name |-> Garbage,
    report_id |-> IF c.report_id = "" THEN Garbage ELSE "", resolver_ip |-> Garbage ]

\* what a read of "ctx" can yield in run_with_index32: ctx is a local of
\* run(), destroyed when run() returns
CtxSeen(r) == IF pc[r] = "done" THEN { ctx[r], Clobbered(ctx[r]) } ELSE { ctx[r] }

\* what a read of "collector_base_url" can yield: a local of run() as well
UrlSeen(r) == IF pc[r] = "done" THEN { collector_base_url[r], Garbage }
              ELSE { collector_base_url[r] }

\* what "inputs[i]" can yield: inputs is a local of the measure block
InputSeen(r, idx) ==
  IF alive[r] THEN { inputs[r][idx + 1] }
  ELSE { Garbage } \cup (IF idx < Len(inputs[r]) THEN { inputs[r][idx + 1] } ELSE { })

\* the local measurement before it is given a member
EmptyMeasurement == << >>

\* what one pass of the loop over the endpoints of a helper leaves under its
\* key: the member is made anew for every endpoint
HelperMember(epnt) ==
  IF epnt.type = endpoint_type_onion
    THEN [address |-> epnt.address, type |-> "onion"]
  ELSE IF epnt.type = endpoint_type_https
    THEN [address |-> epnt.address, type |-> "https"]
  ELSE IF epnt.type = endpoint_type_cloudfront
    THEN [address |-> epnt.address, type |-> "cloudfront", front |-> epnt.front]
  ELSE [address |-> epnt.address]

\* the loop over the endpoints of one helper
RECURSIVE OverEndpoints(_, _, _)
OverEndpoints(member, values, k) ==
  IF k > Len(values) THEN member
  ELSE OverEndpoints(HelperMember(values[k]), values, k + 1)

\* measurement["test_helpers"]: a member for every key of ctx.test_helpers
\* that has an endpoint
MeasurementTestHelpers(test_helpers) ==
  LET keys == { key \in DOMAIN test_helpers : Len(test_helpers[key]) > 0 }
  IN  IF keys = { } THEN << >>
      ELSE [key \in keys |-> OverEndpoints(<< >>, test_helpers[key], 1)]

\* the members run_with_index32 gives the record before it calls the nettest
Record(s, c, input) ==
  [ annotations |->
      [ probe_network_name |->
          IF s.save_real_probe_asn THEN c.probe_network_name ELSE "" ],
    id |-> "uuid4",
    input |-> input,
    input_hashes |-> << >>,
    measurement_start_time |-> "now",
    options |-> << >>,
    probe_asn |-> IF s.save_real_probe_asn THEN c.probe_asn ELSE "",
    probe_cc |-> IF s.save_real_probe_cc THEN c.probe_cc ELSE "",
    probe_city |-> "null",
    probe_ip |-> IF s.save_real_probe_ip THEN c.probe_ip ELSE "",
    report_id |-> c.report_id,
    \* the two keys are spelled as the source spells them
    sotfware_name |-> s.software_name,
    sotfware_version |-> s.software_version,
    test_helpers |-> MeasurementTestHelpers(c.test_helpers),
    test_name |-> "nettest",
    test_start_time |-> "start",
    test_version |-> "0.0.1" ]

\* run_with_index32 up to the call of nettest_.run(): the runtime check reads
\* the steady clock, which never goes back (begin is a local of the block),
\* then status.measurement_start is emitted, the record is built and the
\* nettest is entered
WorkerCheck(r, w) ==
  /\ wpc[r][w] = "check"
  /\ \E t \in ClockReadings(r) :
       /\ elapsed' = IF alive[r] THEN [elapsed EXCEPT ![r] = t] ELSE elapsed
       /\ \E expired \in (IF alive[r] THEN { Expired(t, settings[r].max_runtime) }
                          ELSE BOOLEAN) :
            IF expired
              THEN /\ wpc' = [wpc EXCEPT ![r][w] = "exit"]
                   /\ UNCHANGED << trace, info >>
                   /\ measurement' = measurement
              ELSE \E input \in InputSeen(r, widx[r][w]), c \in CtxSeen(r) :
                   \* storage that lost the inputs has lost ctx as well
                   /\ (pc[r] = "done" /\ input = Garbage) => c # ctx[r]
                   /\ (pc[r] = "done" /\ input # Garbage) => c = ctx[r]
                   /\ wpc' = [wpc EXCEPT ![r][w] = "nettest"]
                   /\ measurement' = [measurement EXCEPT
                                        ![r][w] = Record(settings[r], c, input)]
                   /\ Emit(r, << With([Ev(r, w, "status.measurement_start", widx[r][w], -1)
                                          EXCEPT !.intr = interrupted[r]],
                                     [input |-> input]),
                              With(Call(r, w, "call:nettest.run", widx[r][w]),
                                   [input |-> input]) >>)
  /\ UNCHANGED << WorkerFrame, active, i, mutex, stale, widx >>

\* the test_keys a nettest can hand back: with or without a client_resolver
\* member of its own
TestKeys(r) ==
  { [result |-> "r"] }
  \cup (IF "client_resolver" \in faults[r]
         THEN { [result |-> "r", client_resolver |-> "written by the nettest"] }
         ELSE { })

\* measurement["test_runtime"] = elapsed.count();
\* measurement["test_keys"] = test_keys;
\* measurement["test_keys"]["client_resolver"] = save_real_resolver_ip ? ... : ""
WithTestKeys(m, test_keys, s, c) ==
  [test_runtime |-> "elapsed",
   test_keys |->
     [client_resolver |-> IF s.save_real_resolver_ip THEN c.resolver_ip ELSE ""]
       @@ test_keys] @@ m

\* a run_with_index32 that gives a measurement up when the nettest fails
AfterNettestGivingUp(r, w, idx, rv, serialized, ok, no_collector, report_id, url, m) ==
  << With(Ev(r, w, "ret:nettest.run", idx, -1), [rv |-> rv]) >>
  \o (IF rv THEN << >> ELSE << Ev(r, w, "failure.measurement", idx, -1) >>)
  \o (IF ~rv THEN << >>
      ELSE IF ~serialized
        THEN << Warning(r, w) >>
        ELSE (IF ~no_collector /\ report_id # ""
                THEN << ReportCall(r, w, "call:update_report", idx, url, report_id) >>
                     \o (IF ok
                           THEN << Ev(r, w, "status.measurement_submission", idx, -1) >>
                           ELSE << Warning(r, w),
                                   Ev(r, w, "failure.measurement_submission", idx, -1) >>)
                ELSE IF report_id = ""
                       THEN << Ev(r, w, "failure.measurement_submission", -1, -1) >>
                       ELSE << >>)
             \o << With(Ev(r, w, "measurement", idx, -1), m) >>)
  \o << Ev(r, w, "status.measurement_done", idx, -1) >>

\* what run_with_index32 emits once nettest_.run() has returned rv:
\* failure.measurement, then measurement.dump(), the submission and the
\* measurement event (the report_not_open_error event carries no idx),
\* and in every case status.measurement_done
AfterNettest(r, w, idx, rv, serialized, ok, no_collector, report_id, url, m) ==
  << With(Ev(r, w, "ret:nettest.run", idx, -1), [rv |-> rv]) >>
  \o (IF rv THEN << >> ELSE << Ev(r, w, "failure.measurement", idx, -1) >>)
  \o (IF ~serialized
        THEN << Warning(r, w) >>
        ELSE (IF ~no_collector /\ report_id # ""
                THEN << ReportCall(r, w, "call:update_report", idx, url, report_id) >>
                     \o (IF ok
                           THEN << Ev(r, w, "status.measurement_submission", idx, -1) >>
                           ELSE << Warning(r, w),
                                   Ev(r, w, "failure.measurement_submission", idx, -1) >>)
                ELSE IF report_id = ""
                       THEN << Ev(r, w, "failure.measurement_submission", -1, -1) >>
                       ELSE << >>)
             \o << With(Ev(r, w, "measurement", idx, -1), m) >>)
  \o << Ev(r, w, "status.measurement_done", idx, -1) >>

\* the results a fallible step of a worker can have in run r
Results(r, kind) == IF kind \in faults[r] THEN BOOLEAN ELSE { TRUE }

\* nettest_.run() returns and run_with_index32 runs to its end (return true)
WorkerFinish(r, w) ==
  /\ wpc[r][w] = "nettest"
  /\ \E rv \in Results(r, "nettest"), serialized \in Results(r, "serialize"),
        ok \in Results(r, "update"), c \in CtxSeen(r), url \in UrlSeen(r),
        test_keys \in TestKeys(r) :
       \* ok is the result of update_report: it is drawn only when it is called
       /\ (~serialized \/ settings[r].no_collector \/ c.report_id = "") => ok
       \* the URL is read only when update_report is called, and a
       \* clobbered ctx comes with a clobbered URL
       /\ url = (IF serialized /\ ~settings[r].no_collector /\ c.report_id # ""
                   /\ c # ctx[r]
                 THEN Garbage ELSE collector_base_url[r])
       /\ measurement' = [measurement EXCEPT
                            ![r][w] = WithTestKeys(@, test_keys, settings[r], c)]
       /\ Emit(r, AfterNettest(r, w, widx[r][w], rv, serialized, ok,
                            settings[r].no_collector, c.report_id, url,
                            measurement'[r][w]))
  /\ wpc' = [wpc EXCEPT ![r][w] = "loop"]
  /\ UNCHANGED << WorkerFrame, active, i, mutex, elapsed, stale, widx >>

\* "active -= 1", the last statement of the thread
WorkerExit(r, w) ==
  /\ wpc[r][w] = "exit"
  /\ \E t \in Reach(r) : AddActive(t, -1)
  /\ wpc' = [wpc EXCEPT ![r][w] = "gone"]
  /\ UNCHANGED << WorkerFrame, i, mutex, elapsed, stale, widx, measurement, trace,
                  info >>

\* ---------------------------------------------------------- specifications
MainStep(r) ==
  \/ RunQueued(r)
  \/ RunStarted(r)
  \/ StageBouncer(r)
  \/ StageProbeIp(r)
  \/ StageProbeAsn(r)
  \/ StageProbeCc(r)
  \/ StageResolver(r)
  \/ StageOpenReport(r)
  \/ PrepareInputs(r)
  \/ SpawnWorker(r)
  \/ WaitWorkers(r)
  \/ MeasurementComplete(r)
  \/ StageCloseReport(r)
  \/ RunEnd(r)

WorkerStep(r, w) ==
  \/ WorkerBegin(r, w)
  \/ WorkerLoop(r, w)
  \/ WorkerLock(r, w)
  \/ WorkerClaim(r, w)
  \/ WorkerCheck(r, w)
  \/ WorkerFinish(r, w)
  \/ WorkerExit(r, w)

Next ==
  \/ \E r \in Runs : MainStep(r)
  \/ \E r \in Runs, w \in Workers : WorkerStep(r, w)
  \/ \E r \in Runs : Interrupt(r)

\* no function is under study in the specifications of run()
NoArg == [type |-> "none"]
Pending == [pending |-> TRUE]
\* the function under study has returned
Returned == result # Pending

\* what one run() invocation is given: the Settings and the nettest of its
\* Runner, what happens to it from outside, and whether interrupt() was
\* called on the Runner before run()
Env(s, needs, f, x) == [settings |-> s, needs_input |-> needs, faults |-> f, interrupted |-> x]

\* the state after the Runners are constructed: the runs in calls are the ones
\* the embedder is going to make, scenarios gives each run its Env
\* the threads that emit events: the thread of run() and the workers of the
\* dispatcher
SinkThreads == { 0 } \cup Workers
\* a thread that is not in emit_ev
Outside == [pc |-> "out", event |-> JNull]

Runners(calls, scenarios) ==
  /\ no_data_race = {}
  /\ clog = << >>
  /\ sink = [t \in SinkThreads |-> Outside]
  /\ todo = calls
  /\ \E env \in scenarios :
       /\ settings = [r \in Runs |-> env[r].settings]
       /\ needs_input = [r \in Runs |-> env[r].needs_input]
       /\ faults = [r \in Runs |-> env[r].faults]
       /\ interrupted = [r \in Runs |-> env[r].interrupted]
  /\ global_mutex = 0
  /\ pc = [r \in Runs |-> "idle"]
  /\ ctx = [r \in Runs |-> EmptyCtx]
  /\ collector_base_url = [r \in Runs |-> ""]
  /\ inputs = [r \in Runs |-> << >>]
  /\ parallelism = [r \in Runs |-> 0]
  /\ spawned = [r \in Runs |-> 0]
  /\ active = [r \in Runs |-> 0]
  /\ i = [r \in Runs |-> 0]
  /\ mutex = [r \in Runs |-> << >>]
  /\ alive = [r \in Runs |-> FALSE]
  /\ elapsed = [r \in Runs |-> 0]
  /\ stale = 0
  /\ wpc = [r \in Runs |-> [w \in Workers |-> "none"]]
  /\ widx = [r \in Runs |-> [w \in Workers |-> 0]]
  /\ measurement = [r \in Runs |-> [w \in Workers |-> EmptyMeasurement]]
  /\ trace = [r \in Runs |-> << >>]
  /\ info = [r \in Runs |-> 0]

InitWith(calls, scenarios) ==
  /\ arg = NoArg
  /\ result = Pending
  /\ Runners(calls, scenarios)

\* a nettest without input on quiet settings
QuietEnv == Env(QuietSettings, FALSE, {}, FALSE)

\* one run() call: run 1 gets an Env of the family, run 2 is never called
Single(family) == { [r \in Runs |-> IF r = 1 THEN e ELSE QuietEnv] : e \in family }

\* a function of the library is called on one of args, no run() is made
StudyOf(args) ==
  /\ arg \in args
  /\ result = Pending
  /\ Runners({}, Single({ QuietEnv }))

\* the call of the function under study, which returns value
Study(value) ==
  /\ result = Pending
  /\ result' = value
  /\ UNCHANGED << arg, no_data_race, clog, sink, todo, settings, needs_input,
                  faults, interrupted, global_mutex, pc, ctx, collector_base_url, inputs,
                  parallelism, spawned, active, i, mutex, alive, elapsed,
                  stale, wpc, widx, measurement, trace, info >>

\* two run() calls
Pair(e1, e2) == [r \in Runs |-> IF r = 1 THEN e1 ELSE e2]

\* a nettest with input: n inputs, settings.parallelism p, runtime budget mr
Dispatch(n, p, mr) ==
  [QuietSettings EXCEPT !.inputs = InputList(n), !.parallelism = p, !.max_runtime = mr]

\* dispatcher scenarios
DispatchEnvs ==
  { \* no input at all: the early break
    Env(Dispatch(0, 1, TimeoutDefault), TRUE, {}, FALSE),
    \* one input, one worker, a collector, everything can fail
    Env([Dispatch(1, 1, TimeoutDefault) EXCEPT !.no_collector = FALSE], TRUE,
        {"nettest", "serialize", "update", "interrupt"}, FALSE),
    \* two shuffled inputs, one worker, a budget the clock can reach
    Env([Dispatch(MaxInputs, 1, MaxElapsed) EXCEPT !.randomize_input = TRUE], TRUE,
        {"interrupt"}, FALSE),
    \* more workers than inputs
    Env(Dispatch(1, MaxParallelism, TimeoutDefault), TRUE, {}, FALSE),
    \* the default parallelism, on a Runner interrupted before run()
    Env(Dispatch(1, 0, TimeoutDefault), TRUE, {}, TRUE),
    \* a nettest without input that is given input
    Env([QuietSettings EXCEPT !.inputs = InputList(1)], FALSE, {"interrupt"}, FALSE),
    \* no runtime budget at all
    Env(Dispatch(1, 1, 0), TRUE, {}, FALSE) }

Init == InitWith({1}, Single(DispatchEnvs))

Spec == Init /\ [][Next]_vars

\* pipeline scenarios: every lookup and the collector enabled, so that every
\* stage can fail
StageEnvs ==
  { \* the default settings and a nettest without input, on a Runner
    \* interrupted before run()
    Env(DefaultSettings, FALSE, {}, TRUE),
    \* the default settings and a nettest with input that is given none
    Env(DefaultSettings, TRUE, {"interrupt"}, FALSE),
    \* no lookups, a collector, one input measured by one worker
    Env([Dispatch(1, 1, TimeoutDefault) EXCEPT !.no_collector = FALSE], TRUE,
        {"update"}, FALSE),
    \* no lookups, a collector whose base URL is configured, and a nettest
    \* with input that is given none
    Env([QuietSettings EXCEPT !.no_collector = FALSE,
                              !.collector_base_url = "https://configured.example"],
        TRUE, {}, FALSE) }

SpecStages == InitWith({1}, Single(StageEnvs)) /\ [][Next]_vars

\* two run() calls in one process
TwoRunScenarios ==
  { \* a nettest without input, and a run that leaves at the early break
    Pair(Env(QuietSettings, FALSE, {"interrupt"}, FALSE),
         Env(Dispatch(0, 1, TimeoutDefault), TRUE, {}, FALSE)),
    \* two Runners interrupted before run()
    Pair(Env(QuietSettings, FALSE, {}, TRUE), Env(QuietSettings, FALSE, {}, TRUE)) }

SpecTwoRuns == InitWith(Runs, TwoRunScenarios) /\ [][Next]_vars

\* settings that give every member of ctx a value of its own: the probe's
\* address, network and country are configured, the resolver is looked up
KnownProbe ==
  [ Dispatch(1, 1, TimeoutDefault) EXCEPT
      !.probe_ip = "10.0.0.1", !.probe_asn = "AS1", !.probe_network_name = "Net",
      !.probe_cc = "IT", !.no_resolver_lookup = FALSE ]

\* record scenarios: one input measured by one worker, under the default
\* save_real_* flags and under their opposites
RecordEnvs ==
  { Env(KnownProbe, TRUE, {"client_resolver", "interrupt"}, FALSE),
    Env([KnownProbe EXCEPT
           !.save_real_probe_asn = FALSE, !.save_real_probe_ip = TRUE,
           !.save_real_probe_cc = FALSE, !.save_real_resolver_ip = FALSE],
        TRUE, {"client_resolver"}, FALSE) }

SpecRecords == InitWith({1}, Single(RecordEnvs)) /\ [][Next]_vars

\* configured-probe scenarios: one input measured by one worker, with the
\* three lookups enabled or disabled and the probe's values configured or not
ProbeEnvs ==
  { \* everything configured, every lookup enabled
    Env([KnownProbe EXCEPT !.no_ip_lookup = FALSE, !.no_asn_lookup = FALSE,
                           !.no_cc_lookup = FALSE, !.no_resolver_lookup = TRUE],
        TRUE, {"interrupt"}, FALSE),
    \* everything configured, every lookup disabled
    Env([KnownProbe EXCEPT !.no_resolver_lookup = TRUE], TRUE, {}, FALSE),
    \* only a network name configured, every lookup enabled
    Env([Dispatch(1, 1, TimeoutDefault) EXCEPT
           !.probe_network_name = "Net", !.no_ip_lookup = FALSE,
           !.no_asn_lookup = FALSE, !.no_cc_lookup = FALSE], TRUE, {}, FALSE),
    \* only a network name configured, every lookup disabled
    Env([Dispatch(1, 1, TimeoutDefault) EXCEPT !.probe_network_name = "Net"],
        TRUE, {}, FALSE),
    \* the address configured, network and country looked up
    Env([Dispatch(1, 1, TimeoutDefault) EXCEPT
           !.probe_ip = "10.0.0.1", !.no_ip_lookup = FALSE,
           !.no_asn_lookup = FALSE, !.no_cc_lookup = FALSE], TRUE, {}, FALSE) }

SpecProbe == InitWith({1}, Single(ProbeEnvs)) /\ [][Next]_vars

\* helper scenarios: the bouncer knows a test helper, one or two inputs are
\* measured by one worker
HelperEnvs ==
  { Env([Dispatch(1, 1, TimeoutDefault) EXCEPT !.no_bouncer = FALSE], TRUE,
        {"helpers", "interrupt"}, FALSE),
    Env([Dispatch(MaxInputs, 1, TimeoutDefault) EXCEPT !.no_bouncer = FALSE], TRUE,
        {"helpers"}, FALSE) }

SpecHelpers == InitWith({1}, Single(HelperEnvs)) /\ [][Next]_vars

\* ------------------------------------------------------------- properties
\* how many records of the sink of run r satisfy Test
Count(r, Test(_)) == Cardinality({ k \in DOMAIN trace[r] : Test(trace[r][k]) })
\* the records worker threads appended carry th > 0
ByWorker(e) == e.th > 0
IsStart(e) == e.key = "status.measurement_start"
\* the length of the list the dispatcher of run r is given
PreparedLen(r) == Len(PreparedInputs(needs_input[r], settings[r].inputs))
\* the degree of parallelism run r is to use
Degree(r) == Parallelism(needs_input[r], settings[r].parallelism)
\* no worker thread of run r exists or is still running
Quiescent(r) == \A w \in Workers : wpc[r][w] \in {"none", "gone"}
\* run r is past its wait loop
PastWait(r) == pc[r] \in {"complete", "close"} \/ (pc[r] \in {"end", "done"} /\ spawned[r] > 0)

\* C1: every record a run appends after its status.started (by its main
\* thread or by one of its workers) is appended while no other run is between
\* its own status.started and status.end, that is, while no other run holds
\* the process-wide mutex.
C1_RunsSerialize ==
  \A r \in Runs : \A k \in DOMAIN trace[r] :
    trace[r][k].key # "status.queued" => trace[r][k].holder \in {0, r}

\* C2: the main thread is past its wait loop only when every worker it
\* spawned has finished, and no record of a worker follows status.progress
\* 0.9, the close_report call or status.end in the sink of its run.
C2_WaitsForWorkers ==
  \A r \in Runs :
    /\ PastWait(r) => \A w \in 1..spawned[r] : wpc[r][w] = "gone"
    /\ \A a, b \in DOMAIN trace[r] :
         ( /\ a < b
           /\ trace[r][a].th = 0
           /\ \/ trace[r][a].pct = 90
              \/ trace[r][a].key \in {"call:close_report", "status.end"} )
         => ~ByWorker(trace[r][b])

\* C3: a run emits status.queued once and first, and status.end once and
\* last: no record of the run, whoever appends it, follows status.end, and a
\* run that returned has emitted status.end.
C3_QueuedFirstEndLast ==
  \A r \in Runs :
    /\ trace[r] # << >> => trace[r][1].key = "status.queued"
    /\ Count(r, LAMBDA e : e.key = "status.queued") <= 1
    /\ Count(r, LAMBDA e : e.key = "status.end") <= 1
    /\ \A k \in DOMAIN trace[r] : trace[r][k].key = "status.end" => k = Len(trace[r])
    /\ pc[r] = "done" => Count(r, LAMBDA e : e.key = "status.end") = 1

\* C4: the percentages of the status.progress events of a run never
\* decrease, and the last one of a run that returned is 1.0 (100 here).
C4_ProgressEndsWithOne ==
  \A r \in Runs :
    LET p == SelectSeq(trace[r], LAMBDA e : e.key = "status.progress")
    IN  /\ \A a, b \in DOMAIN p : a < b => p[a].pct <= p[b].pct
        /\ pc[r] = "done" => p # << >> /\ p[Len(p)].pct = 100

\* C5: while interrupt() has not been called and the clock has not reached
\* the runtime budget, no two status.measurement_start events carry the same
\* idx, every idx is an index of the input list, a run whose threads have all
\* finished has started every index, and a worker reads and increments the
\* next-index counter only while it holds the dispatcher mutex.
C5_EachIndexOnce ==
  \A r \in Runs :
    (~interrupted[r] /\ ~Expired(elapsed[r], settings[r].max_runtime)) =>
      /\ \A a, b \in DOMAIN trace[r] :
           (a # b /\ IsStart(trace[r][a]) /\ IsStart(trace[r][b]))
           => trace[r][a].idx # trace[r][b].idx
      /\ \A k \in DOMAIN trace[r] :
           IsStart(trace[r][k]) => trace[r][k].idx \in 0..(PreparedLen(r) - 1)
      /\ (pc[r] = "done" /\ spawned[r] > 0 /\ Quiescent(r)) =>
           { trace[r][k].idx : k \in { m \in DOMAIN trace[r] : IsStart(trace[r][m]) } }
             = 0..(PreparedLen(r) - 1)
      /\ \A w \in Workers : wpc[r][w] = "claim" => mutex[r] = << r, w >>

\* C6: for every idx a status.measurement_start carries there is at most one
\* measurement event and at most one status.measurement_done with that idx,
\* a status.measurement_done follows a start with its idx, and once no
\* worker is running there is exactly one status.measurement_done for it.
C6_StartHasOneDone ==
  \A r \in Runs : \A n \in 0..MaxInputs :
    LET starts == { k \in DOMAIN trace[r] : IsStart(trace[r][k]) /\ trace[r][k].idx = n }
        dones == { k \in DOMAIN trace[r] :
                     trace[r][k].key = "status.measurement_done" /\ trace[r][k].idx = n }
        results == { k \in DOMAIN trace[r] :
                       trace[r][k].key = "measurement" /\ trace[r][k].idx = n }
    IN  /\ Cardinality(dones) <= 1
        /\ Cardinality(results) <= 1
        /\ \A d \in dones : \E b \in starts : b < d
        /\ (Quiescent(r) /\ starts # {}) => Cardinality(dones) = 1

\* C7: at most p workers of a run are active, p being 1 for a nettest
\* without input, else settings.parallelism when positive, else 3; and every
\* idx handed to run_with_index32 is an index of the input list below 2^32.
C7_BoundedWorkers ==
  \A r \in Runs :
    /\ Cardinality({ w \in Workers : wpc[r][w] \notin {"none", "born", "gone"} }) <= Degree(r)
    /\ alive[r] => active[r] <= Degree(r)
    /\ \A w \in Workers :
         wpc[r][w] \in {"check", "nettest"} =>
           /\ 0 <= widx[r][w]
           /\ widx[r][w] < PreparedLen(r)
           /\ ~AboveUint32Max(widx[r][w])

\* C8: a worker that evaluates its loop condition after interrupt() was
\* called leaves the loop; at most p status.measurement_start events follow
\* the call of interrupt(); a nettest in flight is not pre-empted: it can
\* always return and have its events emitted.
C8_InterruptStopsDispatch ==
  /\ [][\A r \in Runs : \A w \in Workers :
          (interrupted[r] /\ wpc[r][w] = "loop" /\ wpc'[r][w] # "loop")
          => wpc'[r][w] = "exit"]_vars
  /\ [](\A r \in Runs : Count(r, LAMBDA e : IsStart(e) /\ e.intr) <= Degree(r))
  /\ [](\A r \in Runs : \A w \in Workers :
          wpc[r][w] = "nettest" => ENABLED WorkerFinish(r, w))

\* C9: run() returns: a run that was called and has not returned can take a
\* step itself, or a thread it is waiting for can (the holder of the
\* process-wide mutex, or a worker while the main thread is in its wait loop).
C9_RunReturns ==
  \A r \in Runs :
    \/ pc[r] \in {"idle", "done"}
    \/ ENABLED MainStep(r)
    \/ \E q \in Runs : q # r /\ global_mutex = q /\ pc[r] = "lock"
    \/ pc[r] = "wait" /\ \E q \in Runs : \E w \in Workers : ENABLED WorkerStep(q, w)

\* the places of the main thread, in program order
PcOrder ==
  << "idle", "lock", "bouncer", "probe_ip", "probe_asn", "probe_cc", "resolver",
     "open_report", "prepare", "spawn", "wait", "complete", "close", "end", "done" >>
Rank(p) == CHOOSE k \in DOMAIN PcOrder : PcOrder[k] = p
\* the main thread of run r has left the block at place p
Past(r, p) == Rank(pc[r]) > Rank(p)
\* the events that mark the stages before the measure stage, in stage order
StageMarks ==
  << [key |-> "status.progress", pct |-> 10],
     [key |-> "status.progress", pct |-> 20],
     [key |-> "status.geoip_lookup", pct |-> -1],
     [key |-> "status.progress", pct |-> 30],
     [key |-> "status.resolver_lookup", pct |-> -1],
     [key |-> "status.progress", pct |-> 40] >>
\* the stage marks run r has emitted so far, in the order of emission
Marks(r) ==
  LET hits == SelectSeq(trace[r], LAMBDA e :
                \E k \in DOMAIN StageMarks :
                  e.key = StageMarks[k].key /\ e.pct = StageMarks[k].pct)
  IN  [k \in DOMAIN hits |-> [key |-> hits[k].key, pct |-> hits[k].pct]]
IsPrefix(a, b) == Len(a) <= Len(b) /\ \A k \in DOMAIN a : a[k] = b[k]
\* how often the main thread of run r called the collaborator name
Calls(r, name) == Count(r, LAMBDA e : e.th = 0 /\ e.key = name)
Once(cond) == IF cond THEN 1 ELSE 0
\* the measure stage of run r is not skipped for want of input
HasInput(r) == ~(needs_input[r] /\ settings[r].inputs = << >>)

At(r, name) == { k \in DOMAIN trace[r] : trace[r][k].key = name }

\* C11: the status.geoip_lookup event reports the values ctx holds after the
\* geolocation stages, and whenever a lookup was disabled or failed, with its
\* setting left empty, the value is the default: "127.0.0.1" for probe_ip,
\* "AS0" for probe_asn, "ZZ" for probe_cc.
C11_DefaultsWhenLookupFails ==
  \A r \in Runs : \A k \in At(r, "status.geoip_lookup") :
    LET v == trace[r][k].val
        failed(name) == \E j \in At(r, name) : j < k
    IN  /\ v.probe_ip = ctx[r].probe_ip
        /\ v.probe_asn = ctx[r].probe_asn
        /\ v.probe_cc = ctx[r].probe_cc
        /\ (settings[r].probe_ip = ""
             /\ (settings[r].no_ip_lookup \/ failed("failure.ip_lookup")))
           => v.probe_ip = "127.0.0.1"
        /\ (settings[r].probe_asn = ""
             /\ (settings[r].no_asn_lookup \/ failed("failure.asn_lookup")))
           => v.probe_asn = "AS0"
        /\ (settings[r].probe_cc = ""
             /\ (settings[r].no_cc_lookup \/ failed("failure.cc_lookup")))
           => v.probe_cc = "ZZ"

\* a run whose three lookups are disabled has reported the three defaults
C11_DisabledLookupsDefault ==
  \E k \in At(1, "status.geoip_lookup") :
    /\ settings[1].no_ip_lookup /\ settings[1].no_asn_lookup /\ settings[1].no_cc_lookup
    /\ trace[1][k].val.probe_ip = "127.0.0.1"
    /\ trace[1][k].val.probe_asn = "AS0"
    /\ trace[1][k].val.probe_cc = "ZZ"

\* C12: in every measurement record, probe_ip is "" when save_real_probe_ip
\* is false and the probe_ip of ctx when it is true; likewise probe_asn with
\* save_real_probe_asn, probe_cc with save_real_probe_cc and
\* test_keys.client_resolver with save_real_resolver_ip; and
\* annotations.probe_network_name is "" when save_real_probe_asn is false.
C12_SaveRealFlags ==
  \A r \in Runs : \A k \in At(r, "measurement") :
    LET m == trace[r][k].val
        s == settings[r]
    IN  /\ m.probe_ip = IF s.save_real_probe_ip THEN ctx[r].probe_ip ELSE ""
        /\ m.probe_asn = IF s.save_real_probe_asn THEN ctx[r].probe_asn ELSE ""
        /\ m.probe_cc = IF s.save_real_probe_cc THEN ctx[r].probe_cc ELSE ""
        /\ m.test_keys.client_resolver
             = IF s.save_real_resolver_ip THEN ctx[r].resolver_ip ELSE ""
        /\ ~s.save_real_probe_asn => m.annotations.probe_network_name = ""

\* a record that hides the address and shows network, country and resolver
C12_DefaultFlagsRecord ==
  \E k \in At(1, "measurement") :
    /\ ~settings[1].save_real_probe_ip /\ settings[1].save_real_probe_asn
    /\ trace[1][k].val.probe_ip = ""
    /\ trace[1][k].val.probe_asn = "AS1"
    /\ trace[1][k].val.probe_cc = "IT"
    /\ trace[1][k].val.test_keys.client_resolver = "8.8.8.8"

\* C13: in every measurement record, test_keys.client_resolver is the
\* resolver_ip of ctx ("" when save_real_resolver_ip is false) whatever the
\* nettest wrote there, and the other members of the nettest's test_keys are
\* the ones the nettest wrote.
C13_ResolverOverwritten ==
  \A r \in Runs : \A k \in At(r, "measurement") :
    LET keys == trace[r][k].val.test_keys
    IN  /\ DOMAIN keys = {"client_resolver", "result"}
        /\ keys.result = "r"
        /\ keys.client_resolver
             = IF settings[r].save_real_resolver_ip THEN ctx[r].resolver_ip ELSE ""

\* a record whose client_resolver is the looked-up address
C13_ResolverInRecord ==
  \E k \in At(1, "measurement") :
    /\ settings[1].save_real_resolver_ip
    /\ trace[1][k].val.test_keys.client_resolver = "8.8.8.8"
    /\ trace[1][k].val.test_keys.result = "r"

\* the URL the open-report stage of run r is to use
ReportUrl(r) ==
  IF settings[r].collector_base_url # "" THEN settings[r].collector_base_url
  ELSE FirstHttpsCollector(ctx[r].collectors)

\* C14: when no_collector is false the open-report stage calls open_report
\* exactly once, with the configured collector_base_url if there is one and
\* else with the address of the first discovered https collector, and the
\* call is followed by status.report_create or failure.report_create; when
\* no_collector is true open_report is never called.
C14_OpenReportOnce ==
  \A r \in Runs :
    LET opens == At(r, "call:open_report")
    IN  /\ settings[r].no_collector => opens = {}
        /\ (Past(r, "open_report") /\ ~settings[r].no_collector) =>
             /\ Cardinality(opens) = 1
             /\ \A k \in opens :
                  /\ trace[r][k].val.collector_base_url = ReportUrl(r)
                  /\ \E j \in At(r, "status.report_create")
                               \cup At(r, "failure.report_create") : j > k

\* open_report was called with the address of the discovered https collector
C14_DiscoveredCollectorUsed ==
  \E k \in At(1, "call:open_report") :
    /\ settings[1].collector_base_url = ""
    /\ trace[1][k].val.collector_base_url = "https://c.example"
    /\ At(1, "status.report_create") # {}

\* C15: a run that opened a report (no_collector false, report id not empty)
\* and has returned has called close_report exactly once, for that report
\* id, after every update_report call of the run and before status.end, and
\* status.report_close or failure.report_close follows the call; this holds
\* for a nettest that needs input and is given none as well.
C15_ReportClosedOnce ==
  \A r \in Runs :
    (pc[r] = "done" /\ ~settings[r].no_collector /\ ctx[r].report_id # "") =>
      LET closes == At(r, "call:close_report")
      IN  /\ Cardinality(closes) = 1
          /\ \A k \in closes :
               /\ trace[r][k].val.report_id = ctx[r].report_id
               /\ \A u \in At(r, "call:update_report") : u < k
               /\ \A e \in At(r, "status.end") : k < e
               /\ \E j \in At(r, "status.report_close")
                            \cup At(r, "failure.report_close") : j > k

\* a report that was opened, updated once and then closed
C15_UpdatedThenClosed ==
  /\ pc[1] = "done"
  /\ ctx[1].report_id # ""
  /\ \E u \in At(1, "call:update_report") : \E k \in At(1, "call:close_report") :
       u < k /\ trace[1][k].val.report_id = ctx[1].report_id

\* C16: every update_report call of a run follows an open_report call of the
\* run that succeeded, and carries the report id that call returned and the
\* collector base URL that call was given; and no worker of a run exists
\* before the open-report stage of the run has finished.
C16_UpdateAfterOpen ==
  \A r \in Runs :
    /\ \A u \in At(r, "call:update_report") :
         \E o \in At(r, "call:open_report") : \E c \in At(r, "status.report_create") :
           /\ o < c /\ c < u
           /\ trace[r][u].val.report_id = trace[r][c].val.report_id
           /\ trace[r][u].val.collector_base_url = trace[r][o].val.collector_base_url
    /\ (\E w \in Workers : wpc[r][w] # "none") => Past(r, "open_report")

\* a measurement submitted to the report that was opened
C16_UpdateOfOpenReport ==
  \E u \in At(1, "call:update_report") : \E c \in At(1, "status.report_create") :
    c < u /\ trace[1][u].val.report_id = trace[1][c].val.report_id

\* the positions of the status.progress events of run r with percentage pct
ProgressAt(r, pct) ==
  { k \in At(r, "status.progress") : trace[r][k].pct = pct }
\* the positions of the records of run r whose key is one of names
AnyAt(r, names) == { k \in DOMAIN trace[r] : trace[r][k].key \in names }
\* every record at a position of first precedes every record at one of second
AllBefore(first, second) == \A a \in first : \A b \in second : a < b
\* every record at a position of second has one of first before it
Preceded(first, second) == \A b \in second : \E a \in first : a < b

\* C17 as stated: the status.progress event of a stage precedes the stage's
\* work (the call of query_bouncer, of the ip, asn and cc lookups, of
\* lookup_resolver_ip, of open_report, the start of the workers, the call of
\* close_report) and the failure or success events of the stage.
C17_ProgressBeforeWork ==
  \A r \in Runs :
    /\ Preceded(ProgressAt(r, 10), At(r, "call:query_bouncer"))
    /\ Preceded(ProgressAt(r, 20),
                AnyAt(r, {"call:lookup_ip", "call:lookup_asn", "call:lookup_cc",
                          "failure.ip_lookup", "failure.asn_lookup",
                          "failure.cc_lookup", "status.geoip_lookup"}))
    /\ Preceded(ProgressAt(r, 30),
                AnyAt(r, {"call:lookup_resolver_ip", "failure.resolver_lookup",
                          "status.resolver_lookup"}))
    /\ Preceded(ProgressAt(r, 40),
                AnyAt(r, {"call:open_report", "status.report_create",
                          "failure.report_create"}))
    /\ (\E w \in Workers : wpc[r][w] # "none") => ProgressAt(r, 90) # {}
    /\ Preceded(ProgressAt(r, 100),
                AnyAt(r, {"call:close_report", "status.report_close",
                          "failure.report_close"}))

\* C17, amended: the status.progress event of a stage follows the stage's
\* work and the failure.* and status.report_* events of the stage: 0.1
\* follows the call of query_bouncer; 0.2 the ip, asn and cc lookups and
\* their failure events; 0.3 lookup_resolver_ip and its failure event; 0.4
\* open_report and its report_create event; 0.9 is emitted once the main
\* thread has spawned its workers and stopped waiting, before close_report;
\* 1.0 follows close_report and its report_close event.  Only
\* status.geoip_lookup and status.resolver_lookup come after the progress
\* event of their stage, directly after it.
C17_ProgressAfterWork ==
  \A r \in Runs :
    /\ AllBefore(At(r, "call:query_bouncer"), ProgressAt(r, 10))
    /\ AllBefore(AnyAt(r, {"call:lookup_ip", "call:lookup_asn", "call:lookup_cc",
                           "failure.ip_lookup", "failure.asn_lookup",
                           "failure.cc_lookup"}),
                 ProgressAt(r, 20))
    /\ \A k \in ProgressAt(r, 20) :
         k < Len(trace[r]) => trace[r][k + 1].key = "status.geoip_lookup"
    /\ AllBefore(AnyAt(r, {"call:lookup_resolver_ip", "failure.resolver_lookup"}),
                 ProgressAt(r, 30))
    /\ \A k \in ProgressAt(r, 30) :
         k < Len(trace[r]) => trace[r][k + 1].key = "status.resolver_lookup"
    /\ AllBefore(AnyAt(r, {"call:open_report", "status.report_create",
                           "failure.report_create"}),
                 ProgressAt(r, 40))
    /\ ProgressAt(r, 90) # {} => Past(r, "complete") /\ spawned[r] = Degree(r)
    /\ AllBefore(ProgressAt(r, 90), At(r, "call:close_report"))
    /\ AllBefore(AnyAt(r, {"call:close_report", "status.report_close",
                           "failure.report_close"}),
                 ProgressAt(r, 100))
    /\ Past(r, "bouncer") => ProgressAt(r, 10) # {}
    /\ Past(r, "probe_cc") => ProgressAt(r, 20) # {}
    /\ Past(r, "resolver") => ProgressAt(r, 30) # {}
    /\ Past(r, "open_report") => ProgressAt(r, 40) # {}
    /\ (Past(r, "complete") /\ HasInput(r)) => ProgressAt(r, 90) # {}
    /\ (Past(r, "close") /\ HasInput(r)) => ProgressAt(r, 100) # {}

\* a run that queried the bouncer, opened and closed a report and reported
\* every percentage
C17_EveryStageWorked ==
  /\ pc[1] = "done"
  /\ \A name \in {"call:query_bouncer", "call:lookup_ip", "call:lookup_asn",
                   "call:lookup_cc", "call:lookup_resolver_ip", "call:open_report",
                   "call:close_report"} : At(1, name) # {}
  /\ \A pct \in {10, 20, 30, 40, 90, 100} : ProgressAt(1, pct) # {}

\* the records thread w of run r appended, in order
Thread(r, w) == SelectSeq(trace[r], LAMBDA e : e.th = w)
SubmissionOutcomes == {"status.measurement_submission", "failure.measurement_submission"}

\* C18: between the return of the nettest for an idx and the
\* status.measurement_done of that idx, a record that serializes gets exactly
\* one submission outcome event (status.measurement_submission or
\* failure.measurement_submission), then the measurement event of the idx,
\* then status.measurement_done; when serialization fails there is no
\* update_report call and no measurement event, and status.measurement_done
\* is emitted all the same.
C18_SubmissionThenMeasurement ==
  \A r \in Runs : \A w \in Workers :
    LET T == Thread(r, w)
        entered == { k \in DOMAIN T : T[k].key = "call:nettest.run" }
    IN  \A c \in entered :
          \* the nettest has returned when the thread has appended more
          (c < Len(T)) =>
            \E d \in (c + 1)..Len(T) :
              LET seg == (c + 1)..(d - 1)
                  outcomes == { j \in seg : T[j].key \in SubmissionOutcomes }
                  results == { j \in seg : T[j].key = "measurement" }
              IN  /\ T[d].key = "status.measurement_done"
                  /\ T[d].idx = T[c].idx
                  /\ \A j \in seg : T[j].key \notin {"call:nettest.run",
                                                     "status.measurement_done"}
                  /\ IF results # {}
                       THEN /\ results = { d - 1 }
                            /\ T[d - 1].idx = T[c].idx
                            /\ Cardinality(outcomes) = 1
                       ELSE /\ outcomes = {}
                            /\ \A j \in seg : T[j].key # "call:update_report"

\* a worker has had a record submitted: the submission event, the
\* measurement event and status.measurement_done, in this order
C18_SubmittedRecord ==
  LET T == Thread(1, 1)
  IN  \E k \in DOMAIN T :
        /\ k + 2 <= Len(T)
        /\ T[k].key = "status.measurement_submission"
        /\ T[k + 1].key = "measurement"
        /\ T[k + 2].key = "status.measurement_done"

\* C19: with max_runtime = 0 the pre-dispatch check finds the budget used up
\* for every index, so no status.measurement_start is emitted and the nettest
\* is never invoked; and whatever the budget, a nettest that was entered is
\* not cut short: it can return and have its events emitted.
C19_NoStartPastBudget ==
  \A r \in Runs :
    /\ settings[r].max_runtime = 0 =>
         At(r, "status.measurement_start") \cup At(r, "call:nettest.run") = {}
    /\ \A w \in Workers : wpc[r][w] = "nettest" => ENABLED WorkerFinish(r, w)

\* a worker that claimed an index under max_runtime = 0 and left without
\* starting it
C19_ClaimedNotStarted ==
  /\ settings[1].max_runtime = 0
  /\ i[1] = 1
  /\ wpc[1][1] = "gone"
  /\ At(1, "status.measurement_start") = {}

\* the inputs run r has dispatched, as the set of << idx, input >> pairs of
\* its status.measurement_start events
Dispatched(r) ==
  { << trace[r][k].idx, trace[r][k].val.input >> : k \in At(r, "status.measurement_start") }
\* the pairs a list of inputs gives when each element is dispatched once
Indexed(list) == { << k - 1, list[k] >> : k \in DOMAIN list }
\* run r has returned, its threads have finished, and neither interrupt() nor
\* the runtime budget has cut the dispatching short
Undisturbed(r) ==
  /\ pc[r] = "done"
  /\ Quiescent(r)
  /\ ~interrupted[r]
  /\ ~Expired(elapsed[r], settings[r].max_runtime)

\* C20: a nettest that needs input and is given none emits no
\* status.measurement_start; otherwise, in a run that was not cut short, each
\* status.measurement_start belongs to one dispatched input: a nettest
\* without input dispatches idx 0 with input "" once, whatever
\* settings.inputs holds, and a nettest with input dispatches a permutation
\* of settings.inputs, which is settings.inputs itself when randomize_input
\* is false.
C20_DispatchedInputs ==
  \A r \in Runs :
    /\ ~HasInput(r) => At(r, "status.measurement_start") = {}
    /\ (Undisturbed(r) /\ HasInput(r)) =>
         /\ Cardinality(At(r, "status.measurement_start")) = PreparedLen(r)
         /\ IF ~needs_input[r] THEN Dispatched(r) = { << 0, "" >> }
            ELSE /\ \E list \in Perms(settings[r].inputs) : Dispatched(r) = Indexed(list)
                 /\ ~settings[r].randomize_input =>
                      Dispatched(r) = Indexed(settings[r].inputs)

\* two inputs were dispatched in the opposite of their configured order
C20_ShuffledOrder ==
  /\ Undisturbed(1)
  /\ Len(settings[1].inputs) = 2
  /\ Dispatched(1) = { << 0, settings[1].inputs[2] >>, << 1, settings[1].inputs[1] >> }

\* the events of run r that are not log events (and not calls), as
\* << key, percentage, idx >> triples in the order of emission
Events(r) ==
  LET hits == SelectSeq(trace[r], LAMBDA e :
                e.key # "log" /\ e.key \notin { "call:nettest.run", "ret:nettest.run",
                  "call:query_bouncer",
                  "call:lookup_ip", "call:lookup_asn", "call:lookup_cc",
                  "call:lookup_resolver_ip", "call:open_report", "call:update_report",
                  "call:close_report" })
  IN  [k \in DOMAIN hits |-> << hits[k].key, hits[k].pct, hits[k].idx >>]
\* the collaborators that go to the network or to a database
NetworkCalls ==
  { "call:query_bouncer", "call:lookup_ip", "call:lookup_asn", "call:lookup_cc",
    "call:lookup_resolver_ip", "call:open_report", "call:update_report",
    "call:close_report" }
\* run r has every lookup and the collector switched off
AllOff(r) ==
  /\ settings[r].no_bouncer /\ settings[r].no_ip_lookup /\ settings[r].no_asn_lookup
  /\ settings[r].no_cc_lookup /\ settings[r].no_resolver_lookup
  /\ settings[r].no_collector
  /\ settings[r].probe_ip = "" /\ settings[r].probe_asn = "" /\ settings[r].probe_cc = ""
\* the events of end-to-end scenario 1; the single measurement is
\* status.measurement_start, the submission outcome (no report is open),
\* measurement and status.measurement_done
QuietRunEvents ==
  << << "status.queued", -1, -1 >>, << "status.started", -1, -1 >>,
     << "status.progress", 10, -1 >>, << "status.progress", 20, -1 >>,
     << "status.geoip_lookup", -1, -1 >>, << "status.progress", 30, -1 >>,
     << "status.resolver_lookup", -1, -1 >>, << "status.progress", 40, -1 >>,
     << "status.measurement_start", -1, 0 >>,
     << "failure.measurement_submission", -1, -1 >>,
     << "measurement", -1, 0 >>, << "status.measurement_done", -1, 0 >>,
     << "status.progress", 90, -1 >>, << "failure.report_close", -1, -1 >>,
     << "status.progress", 100, -1 >>, << "status.end", -1, -1 >> >>

\* C21: a run of a nettest without input, with a positive max_runtime and
\* every lookup and the collector switched off, that was not interrupted and
\* has returned with its threads finished, has emitted exactly the events of
\* scenario 1 in their order, with the default probe values in
\* status.geoip_lookup, "" in status.resolver_lookup and input "" in the
\* measurement; and it never calls a network or lookup operation.
C21_QuietRunEvents ==
  \A r \in Runs :
    (AllOff(r) /\ ~needs_input[r] /\ settings[r].max_runtime > 0) =>
      /\ AnyAt(r, NetworkCalls) = {}
      /\ (pc[r] = "done" /\ Quiescent(r) /\ ~interrupted[r]) =>
           /\ Events(r) = QuietRunEvents
           /\ \A k \in At(r, "status.geoip_lookup") :
                trace[r][k].val = [probe_cc |-> "ZZ", probe_asn |-> "AS0",
                                   probe_ip |-> "127.0.0.1", probe_network_name |-> ""]
           /\ \A k \in At(r, "status.resolver_lookup") :
                trace[r][k].val.resolver_ip = ""
           /\ \A k \in At(r, "status.measurement_start") : trace[r][k].val.input = ""

\* the run of scenario 1 has returned after its single measurement
C21_QuietRunMeasured ==
  /\ AllOff(1) /\ ~needs_input[1]
  /\ pc[1] = "done"
  /\ ~interrupted[1]
  /\ At(1, "status.measurement_done") # {}
  /\ ProgressAt(1, 100) # {}

\* the members of a measurement record that the specification documents
DocumentedMembers ==
  { "annotations", "id", "input", "input_hashes", "measurement_start_time",
    "options", "probe_asn", "probe_cc", "probe_ip", "probe_city", "report_id",
    "software_name", "software_version", "test_helpers", "test_name",
    "test_start_time", "test_version", "test_runtime", "test_keys" }

\* C22: the record every measurement event carries (the text handed to
\* update_report is the same serialization) has exactly the documented
\* members, and its software_name and software_version are the ones of the
\* settings.
C22_DocumentedMembers ==
  \A r \in Runs : \A k \in At(r, "measurement") :
    LET m == trace[r][k].val
    IN  /\ DOMAIN m = DocumentedMembers
        /\ m.software_name = settings[r].software_name
        /\ m.software_version = settings[r].software_version

\* a measurement event whose record has nineteen members
C22_RecordEmitted ==
  \E k \in At(1, "measurement") :
    /\ Cardinality(DOMAIN trace[1][k].val) = Cardinality(DocumentedMembers)
    /\ "test_keys" \in DOMAIN trace[1][k].val

\* C23: the downloaded_kb and uploaded_kb of status.end are the counters
\* after all the work of the run: they account for every transfer of every
\* stage and of every worker of the run, and no transfer of the run happens
\* after status.end, interrupt() or not.
C23_CountersComplete ==
  \A r \in Runs : \A e \in At(r, "status.end") :
    /\ trace[r][e].val.downloaded_kb = Kb(Bytes(SubSeq(trace[r], 1, e)))
    /\ trace[r][e].val.uploaded_kb = Kb(Bytes(SubSeq(trace[r], 1, e)))
    /\ \A k \in AnyAt(r, TransferCalls) : k < e
    /\ Quiescent(r) => trace[r][e].val.downloaded_kb = Kb(Bytes(trace[r]))

\* a run that was interrupted has reported the bytes of its report calls
\* and of its nettest in status.end
C23_TransfersReported ==
  \E e \in At(1, "status.end") :
    /\ interrupted[1]
    /\ \E k \in At(1, "call:nettest.run") : k < e
    /\ \E k \in At(1, "call:close_report") : k < e
    /\ trace[1][e].val.downloaded_kb = Kb(Bytes(trace[1]))
    /\ Bytes(trace[1]) >= 3 * TransferBytes

\* ---------------------------------------------------------- parse_settings
\* Type{}: the value-initialized object of each C++ type that is read
Zero(type) ==
  CASE type = "bool" -> FALSE
    [] type = "double" -> [n |-> 0, frac |-> FALSE]
    [] type = "std::string" -> ""
    [] OTHER -> << >>

\* entry.get<Type>() does not throw
Convertible(entry, type) ==
  CASE type = "bool" -> entry.type = "boolean"
    [] type = "double" -> entry.type = "number"
    [] type = "std::string" -> entry.type = "string"
    [] type = "std::vector<std::string>" ->
         /\ entry.type = "array"
         /\ \A k \in DOMAIN entry.a : entry.a[k].type = "string"
    [] OTHER ->
         /\ entry.type = "object"
         /\ \A k \in DOMAIN entry.o : entry.o[k].type = "string"

\* entry.get<Type>()
Get(entry, type) ==
  CASE type = "bool" -> entry.b
    [] type = "double" -> [n |-> entry.n, frac |-> entry.frac]
    [] type = "std::string" -> entry.s
    [] type = "std::vector<std::string>" -> [k \in DOMAIN entry.a |-> entry.a[k].s]
    [] OTHER -> [k \in DOMAIN entry.o |-> entry.o[k].s]

\* an error of parse_settings: its class and what follows the class
SettingsError(detail) == << "invalid_settings_error", detail >>
NoError == << "", "" >>

\* json_maybe_get<Type>(doc, ptr_string, value, err): value is reset before
\* the lookup, so that a missing entry leaves Type{} in it
json_maybe_get(doc, path, type) ==
  LET entry == Lookup(doc, path)
  IN  IF entry = Absent THEN [ok |-> TRUE, value |-> Zero(type), err |-> NoError]
      ELSE IF Convertible(entry, type)
        THEN [ok |-> TRUE, value |-> Get(entry, type), err |-> NoError]
        ELSE [ok |-> FALSE, value |-> Zero(type),
              err |-> SettingsError("cannot convert variable")]

Uint8Max == 255
Uint16Max == 65535

\* a default-constructed Settings
Settings ==
  [ annotations |-> << >>, inputs |-> << >>, input_filepaths |-> << >>,
    log_filepath |-> "", log_level |-> "log_warning", name |-> "",
    output_filepath |-> "", all_endpoints |-> FALSE,
    bouncer_base_url |-> "https://bouncer.ooni.io", ca_bundle_path |-> "",
    collector_base_url |-> "", engine_name |-> "libnettest2",
    engine_version |-> "0.6.0", engine_version_full |-> "0.6.0",
    geoip_asn_path |-> "", geoip_country_path |-> "",
    max_runtime |-> TimeoutDefault, no_asn_lookup |-> FALSE,
    no_bouncer |-> FALSE, no_cc_lookup |-> FALSE, no_collector |-> FALSE,
    no_file_report |-> FALSE, no_ip_lookup |-> FALSE,
    no_resolver_lookup |-> FALSE, parallelism |-> 0, platform |-> "",
    port |-> 0, probe_ip |-> "", probe_asn |-> "", probe_network_name |-> "",
    probe_cc |-> "", randomize_input |-> TRUE, save_real_probe_asn |-> TRUE,
    save_real_probe_ip |-> FALSE, save_real_probe_cc |-> TRUE,
    save_real_resolver_ip |-> TRUE, server |-> "",
    software_name |-> "libnettest2", software_version |-> "0.6.0" ]

\* what parse_settings has made of its three output arguments, and whether
\* it is still running (it returns false where ok becomes FALSE)
Parsing(s) == [ok |-> TRUE, settings |-> s, err |-> NoError, warn |-> ""]
Fail(st, e) == [st EXCEPT !.ok = FALSE, !.err = e]
Assign(st, field, v) == [st EXCEPT !.settings[field] = v]

\* MAYBE_GET(path, variable)
MAYBE_GET(doc, st, path, type, field) ==
  LET got == json_maybe_get(doc, path, type)
  IN  IF ~got.ok THEN Fail(Assign(st, field, got.value), got.err)
      ELSE Assign(st, field, got.value)

\* MAYBE_GET_BOOL(path, variable): a number is taken for a boolean, with a
\* warning
MAYBE_GET_BOOL(doc, st, path, field) ==
  LET got == json_maybe_get(doc, path, "bool")
      scratch == json_maybe_get(doc, path, "double")
  IN  IF got.ok THEN Assign(st, field, got.value)
      ELSE IF ~scratch.ok THEN Fail(Assign(st, field, got.value), got.err)
      ELSE [Assign(st, field, scratch.value.n # 0 \/ scratch.value.frac)
              EXCEPT !.err = NoError, !.warn = "Found number variable"]

\* MAYBE_GET_UINT8(path, variable) and MAYBE_GET_UINT16(path, variable):
\* maximum is UINT8_MAX or UINT16_MAX
MAYBE_GET_UINT(doc, st, path, field, maximum) ==
  LET got == json_maybe_get(doc, path, "double")
      scratch == got.value
  IN  IF ~got.ok THEN Fail(st, got.err)
      ELSE IF scratch.frac THEN Fail(st, SettingsError("format"))
      ELSE IF scratch.n < 0 \/ scratch.n > maximum
        THEN Fail(st, SettingsError("out of range"))
      ELSE Assign(st, field, scratch.n)

LogLevels ==
  [ QUIET |-> "log_quiet", ERR |-> "log_err", WARNING |-> "log_warning",
    INFO |-> "log_info", DEBUG |-> "log_debug", DEBUG2 |-> "log_debug2" ]

\* the block that reads /log_level through a local string
ReadLogLevel(doc, st) ==
  LET got == json_maybe_get(doc, << "log_level" >>, "std::string")
      s == got.value
  IN  IF ~got.ok THEN Fail(st, got.err)
      ELSE IF s = "" THEN st
      ELSE IF s \in DOMAIN LogLevels THEN Assign(st, "log_level", LogLevels[s])
      ELSE Fail(st, SettingsError("cannot convert to enumeration"))

Top(macro, type, name) == [macro |-> macro, type |-> type, path |-> << name >>, field |-> name]
Opt(macro, type, name) == [macro |-> macro, type |-> type, path |-> << "options", name >>, field |-> name]
Str(name) == Opt("MAYBE_GET", "std::string", name)
Bool(name) == Opt("MAYBE_GET_BOOL", "bool", name)

\* the reads of parse_settings, in the order of the code
Reads ==
  << Top("MAYBE_GET", "std::map<std::string, std::string>", "annotations"),
     Top("MAYBE_GET", "std::vector<std::string>", "inputs"),
     Top("MAYBE_GET", "std::vector<std::string>", "input_filepaths"),
     Top("MAYBE_GET", "std::string", "log_filepath"),
     Top("log_level", "std::string", "log_level"),
     Top("MAYBE_GET", "std::string", "name"),
     Top("MAYBE_GET", "std::string", "output_filepath"),
     Bool("all_endpoints"), Str("bouncer_base_url"), Str("ca_bundle_path"),
     Str("collector_base_url"), Str("engine_name"), Str("engine_version"),
     Str("engine_version_full"), Str("geoip_asn_path"),
     Str("geoip_country_path"),
     Opt("MAYBE_GET_UINT16", "uint16_t", "max_runtime"),
     Bool("no_asn_lookup"), Bool("no_bouncer"), Bool("no_cc_lookup"),
     Bool("no_collector"), Bool("no_file_report"), Bool("no_ip_lookup"),
     Bool("no_resolver_lookup"),
     Opt("MAYBE_GET_UINT8", "uint8_t", "parallelism"),
     Str("platform"), Opt("MAYBE_GET_UINT16", "uint16_t", "port"),
     Str("probe_ip"), Str("probe_asn"), Str("probe_network_name"),
     Str("probe_cc"), Bool("randomize_input"), Bool("save_real_probe_asn"),
     Bool("save_real_probe_ip"), Bool("save_real_probe_cc"),
     Bool("save_real_resolver_ip"), Str("server"), Str("software_name"),
     Str("software_version") >>

Read(doc, st, rd) ==
  CASE rd.macro = "MAYBE_GET" -> MAYBE_GET(doc, st, rd.path, rd.type, rd.field)
    [] rd.macro = "MAYBE_GET_BOOL" -> MAYBE_GET_BOOL(doc, st, rd.path, rd.field)
    [] rd.macro = "MAYBE_GET_UINT8" -> MAYBE_GET_UINT(doc, st, rd.path, rd.field, Uint8Max)
    [] rd.macro = "MAYBE_GET_UINT16" -> MAYBE_GET_UINT(doc, st, rd.path, rd.field, Uint16Max)
    [] OTHER -> ReadLogLevel(doc, st)

RECURSIVE ReadFrom(_, _, _)
ReadFrom(doc, st, k) ==
  IF k > Len(Reads) \/ ~st.ok THEN st
  ELSE ReadFrom(doc, Read(doc, st, Reads[k]), k + 1)

\* parse_settings(str, settings, err, warn) on a default-constructed Settings
\* and empty err and warn
parse_settings(str) ==
  LET st == Parsing(Settings)
  IN  IF str = Malformed THEN Fail(st, << "json_parse_error", "" >>)
      ELSE IF str.type # "object"
        THEN Fail(st, SettingsError("JSON document is not an object"))
      ELSE IF "options" \notin DOMAIN str.o
        THEN Fail(st, SettingsError("missing 'options' entry"))
      ELSE IF str.o["options"].type # "object"
        THEN Fail(st, SettingsError("'options' entry is not an object"))
      ELSE IF "name" \notin DOMAIN str.o
        THEN Fail(st, SettingsError("missing 'name' entry"))
      ELSE IF str.o["name"].type # "string"
        THEN Fail(st, SettingsError("'name' entry is not a string"))
      ELSE ReadFrom(str, st, 1)

\* the options objects and the documents parse_settings is studied on
OptionsObjects ==
  { Object(f) : f \in
      [ max_runtime : { Absent, JNum(5, FALSE), JNum(5, TRUE), JNum(0 - 1, FALSE),
                        JNum(Uint16Max + 1, FALSE), JStr("5") },
        randomize_input : { Absent, JBool(TRUE), JBool(FALSE), JNum(1, FALSE),
                            JNum(0, FALSE), JStr("yes") },
        bouncer_base_url : { Absent, JStr("https://bouncer.example.org"), JBool(TRUE) },
        parallelism : { Absent, JNum(2, FALSE), JNum(Uint8Max + 1, FALSE) },
        save_real_probe_ip : { Absent, JBool(TRUE) },
        software_name : { Absent, JStr("app") } ] }

Documents ==
  { Malformed, JNull, JArr(<< >>) } \cup
  { Object(f) : f \in
      [ name : { Absent, JStr("nettest"), JNum(5, FALSE) },
        log_level : { Absent, JStr("INFO"), JStr("LOUD") },
        inputs : { Absent, JArr(<< JStr("a") >>), JArr(<< JNum(1, FALSE) >>) },
        options : { Absent, JArr(<< >>) } \cup OptionsObjects ] }

ParseSettings == Study(parse_settings(arg))

SpecSettings == StudyOf(Documents) /\ [][ParseSettings]_vars

\* the options whose defaults the specification documents
DocumentedDefaults ==
  [ max_runtime |-> 90, randomize_input |-> TRUE, save_real_probe_asn |-> TRUE,
    save_real_probe_cc |-> TRUE, save_real_resolver_ip |-> TRUE,
    save_real_probe_ip |-> FALSE, parallelism |-> 0,
    bouncer_base_url |-> "https://bouncer.ooni.io",
    engine_name |-> "libnettest2", engine_version |-> "0.6.0",
    engine_version_full |-> "0.6.0", software_name |-> "libnettest2",
    software_version |-> "0.6.0" ]

\* C24: after a successful parse_settings, every option that is absent from
\* the document has its documented default in the Settings record.
C24_AbsentKeepsDefault ==
  (Returned /\ result.ok) =>
    \A o \in DOMAIN DocumentedDefaults :
      Lookup(arg, << "options", o >>) = Absent =>
        result.settings[o] = DocumentedDefaults[o]

\* a document without max_runtime and randomize_input was parsed with success
C24_ParsedWithoutOptions ==
  /\ Returned
  /\ result.ok
  /\ Lookup(arg, << "options", "max_runtime" >>) = Absent
  /\ Lookup(arg, << "options", "randomize_input" >>) = Absent
  /\ Lookup(arg, << "options", "software_name" >>) # Absent

\* the type the specification documents for a member that is present
WellTyped(doc, rd) ==
  LET entry == Lookup(doc, rd.path)
  IN  entry # Absent =>
        CASE rd.macro = "MAYBE_GET_BOOL" -> entry.type = "boolean"
          [] rd.macro = "MAYBE_GET_UINT8" ->
               entry.type = "number" /\ ~entry.frac /\ entry.n \in 0..Uint8Max
          [] rd.macro = "MAYBE_GET_UINT16" ->
               entry.type = "number" /\ ~entry.frac /\ entry.n \in 0..Uint16Max
          [] rd.macro = "log_level" ->
               entry.type = "string" /\ entry.s \in DOMAIN LogLevels
          [] OTHER -> Convertible(entry, rd.type)

\* a JSON object with a string name whose present members have the
\* documented shapes and types
Acceptable(doc) ==
  /\ doc # Malformed
  /\ doc.type = "object"
  /\ Lookup(doc, << "name" >>) # Absent
  /\ Lookup(doc, << "options" >>) # Absent => Lookup(doc, << "options" >>).type = "object"
  /\ \A k \in DOMAIN Reads : WellTyped(doc, Reads[k])

\* C25: parse_settings accepts every JSON object with a string name whose
\* present members are well formed, whichever members are absent, the options
\* member included; it fails with json_parse_error only on malformed JSON and
\* with invalid_settings_error only on a document that is not acceptable.
C25_AcceptsSparseDocuments ==
  Returned =>
    /\ Acceptable(arg) => result.ok
    /\ (~result.ok /\ result.err[1] = "json_parse_error") => arg = Malformed
    /\ (~result.ok /\ result.err[1] = "invalid_settings_error") =>
         (arg # Malformed /\ ~Acceptable(arg))

\* a document with a name and no options member was given to parse_settings
C25_NoOptionsMember ==
  /\ Returned
  /\ Acceptable(arg)
  /\ Lookup(arg, << "options" >>) = Absent
  /\ Lookup(arg, << "log_level" >>) # Absent

\* ------------------------------------------------------ the bouncer in run()
\* the positions in the trace of run r where a query_bouncer that failed
\* was followed by the warning of run()
FailedBouncerQueries(r) ==
  { k \in At(r, "call:query_bouncer") :
      k < Len(trace[r]) /\ trace[r][k + 1].key = "log" }

\* C26: when query_bouncer fails, for whatever reason, the run goes on with
\* ctx.collectors and ctx.test_helpers both empty, after a warning log and
\* without any failure event: the next event is status.progress 0.1.
C26_FailedBouncerLeavesNothing ==
  \A r \in Runs : \A k \in FailedBouncerQueries(r) :
    /\ pc[r] # "done" => (ctx[r].collectors = << >> /\ ctx[r].test_helpers = << >>)
    /\ k + 1 < Len(trace[r]) =>
         (trace[r][k + 2].key = "status.progress" /\ trace[r][k + 2].pct = 10)

\* a run whose bouncer query failed has gone on to open a report
C26_WentOnAfterFailure ==
  /\ FailedBouncerQueries(1) # {}
  /\ At(1, "call:open_report") # {}
  /\ pc[1] # "done"

\* ------------------------------------------------- query_bouncer, studied
\* query_bouncer as a function of what its outputs hold and of the response
QueryBouncerOf(a) == query_bouncer(a.collectors, a.test_helpers, a.response)

\* alternate endpoints a bouncer can list
AltHttps == JObj("type" :> JStr("https") @@ "address" :> JStr("https://a.example"))
AltCloudfront ==
  JObj("type" :> JStr("cloudfront") @@ "address" :> JStr("https://d.cloudfront.net")
       @@ "front" :> JStr("front.example"))
AltEmptyFront ==
  JObj("type" :> JStr("cloudfront") @@ "address" :> JStr("https://e.cloudfront.net")
       @@ "front" :> JStr(""))
AltNoFront == JObj("type" :> JStr("cloudfront") @@ "address" :> JStr("https://n.cloudfront.net"))
AltOther == JObj("type" :> JStr("ftp"))
Alts == { AltHttps, AltCloudfront, AltEmptyFront, AltNoFront, AltOther }

\* the longest list of alternates in a studied response
MaxAlternates == 2
AltLists(n) == UNION { [1..m -> Alts] : m \in 0..n }

NetTestEntries ==
  { Object("collector" :> c @@ "collector-alternate" :> ca
           @@ "test-helpers" :> th @@ "test-helpers-alternate" :> tha) :
      c \in { Absent, JStr("httpo://c.onion") },
      ca \in { Absent, JNull } \cup { JArr(l) : l \in AltLists(MaxAlternates) },
      th \in { Absent, JObj(<< >>), JObj("backend" :> JStr("httpo://h.onion")),
               JObj("backend" :> JStr("httpo://h.onion") @@ "dns" :> JStr("httpo://d.onion")),
               JObj("backend" :> JNum(1, FALSE)) },
      tha \in { Absent, JObj(<< >>) }
              \cup { JObj("backend" :> JArr(l)) : l \in AltLists(MaxAlternates - 1) } }

\* a complete element, and elements that follow it in a longer response
FullEntry ==
  JObj("collector" :> JStr("httpo://c.onion")
       @@ "collector-alternate" :> JArr(<< AltCloudfront, AltOther, AltHttps >>)
       @@ "test-helpers" :> JObj("backend" :> JStr("httpo://h.onion"))
       @@ "test-helpers-alternate" :> JObj("backend" :> JArr(<< AltHttps >>)))
SecondEntries ==
  { FullEntry,
    JObj("collector" :> JStr("httpo://second.onion")
         @@ "collector-alternate" :> JArr(<< >>)
         @@ "test-helpers" :> JObj("backend" :> JStr("httpo://second-h.onion"))
         @@ "test-helpers-alternate" :> JObj("dns" :> JArr(<< AltCloudfront >>))),
    JObj("collector" :> JStr("httpo://second.onion")),
    JStr("not an element") }

NetTestsOf(elements) == JObj("net-tests" :> JArr(elements))

Responses ==
  { TransportFailure, Malformed, JArr(<< >>), JObj(<< >>),
    JObj("net-tests" :> JNull), NetTestsOf(<< >>) }
  \cup { NetTestsOf(<< e >>) : e \in NetTestEntries }
  \cup { NetTestsOf(<< FullEntry, e >>) : e \in SecondEntries }

\* what the caller's outputs hold when query_bouncer is called
HeldBefore ==
  { [collectors |-> << >>, test_helpers |-> << >>],
    [collectors |-> << EndpointInfo(endpoint_type_https, "https://held.example", "") >>,
     test_helpers |-> "backend" :> << EndpointInfo(endpoint_type_onion, "httpo://held.onion", "") >>] }

BouncerArgs ==
  { [collectors |-> h.collectors, test_helpers |-> h.test_helpers, response |-> rsp] :
      h \in HeldBefore, rsp \in Responses }

QueryBouncer == Study(QueryBouncerOf(arg))

SpecBouncer == StudyOf(BouncerArgs) /\ [][QueryBouncer]_vars

\* the response format the specification documents
WellFormedAlternates(v) ==
  /\ v.type = "array"
  /\ \A k \in DOMAIN v.a :
       /\ StringAt(v.a[k], "type")
       /\ v.a[k].o["type"].s \in { "https", "cloudfront" } => StringAt(v.a[k], "address")
       /\ v.a[k].o["type"].s = "cloudfront" => StringAt(v.a[k], "front")

WellFormedEntry(e) ==
  /\ StringAt(e, "collector")
  /\ MemberAt(e, "collector-alternate")
  /\ WellFormedAlternates(e.o["collector-alternate"])
  /\ MemberAt(e, "test-helpers")
  /\ e.o["test-helpers"].type = "object"
  /\ \A n \in DOMAIN e.o["test-helpers"].o : e.o["test-helpers"].o[n].type = "string"
  /\ MemberAt(e, "test-helpers-alternate")
  /\ e.o["test-helpers-alternate"].type = "object"
  /\ \A n \in DOMAIN e.o["test-helpers-alternate"].o :
       WellFormedAlternates(e.o["test-helpers-alternate"].o[n])

WellFormed(rsp) ==
  /\ MemberAt(rsp, "net-tests")
  /\ rsp.o["net-tests"].type = "array"
  /\ \A k \in DOMAIN rsp.o["net-tests"].a : WellFormedEntry(rsp.o["net-tests"].a[k])

\* the endpoints the specification derives from a list of alternates: the
\* https and cloudfront ones, in order
RECURSIVE Listed(_)
Listed(l) ==
  IF l = << >> THEN << >>
  ELSE LET e == Head(l).o
       IN  (IF e["type"].s = "https"
              THEN << EndpointInfo(endpoint_type_https, e["address"].s, "") >>
            ELSE IF e["type"].s = "cloudfront"
              THEN << EndpointInfo(endpoint_type_cloudfront, e["address"].s, e["front"].s) >>
            ELSE << >>)
           \o Listed(Tail(l))

\* the collectors of one element, and its helpers under a key
EntryCollectors(e) ==
  << EndpointInfo(endpoint_type_onion, e.o["collector"].s, "") >>
  \o Listed(e.o["collector-alternate"].a)
EntryHelpers(e, n) ==
  (IF n \in DOMAIN e.o["test-helpers"].o
     THEN << EndpointInfo(endpoint_type_onion, e.o["test-helpers"].o[n].s, "") >>
     ELSE << >>)
  \o (IF n \in DOMAIN e.o["test-helpers-alternate"].o
        THEN Listed(e.o["test-helpers-alternate"].o[n].a)
        ELSE << >>)

RECURSIVE AllCollectors(_)
AllCollectors(es) ==
  IF es = << >> THEN << >> ELSE EntryCollectors(Head(es)) \o AllCollectors(Tail(es))
RECURSIVE AllHelpers(_, _)
AllHelpers(es, n) ==
  IF es = << >> THEN << >> ELSE EntryHelpers(Head(es), n) \o AllHelpers(Tail(es), n)

\* C29: on a well-formed response query_bouncer succeeds and its outputs,
\* whatever they held before, are exactly: in collectors, for each net-tests
\* element in order, the primary collector as an onion endpoint and then its
\* https and cloudfront alternates in order; in test_helpers, under each key,
\* for each element in order, the onion endpoint of test-helpers and then
\* the https and cloudfront elements of test-helpers-alternate; no other key
\* and no other endpoint.
C29_OutputsOfWellFormedResponse ==
  (Returned /\ WellFormed(arg.response)) =>
    LET es == arg.response.o["net-tests"].a
    IN  /\ result.ok
        /\ result.collectors = AllCollectors(es)
        /\ \A n \in DOMAIN result.test_helpers :
             /\ result.test_helpers[n] # << >>
             /\ result.test_helpers[n] = AllHelpers(es, n)
        /\ \A n \in { "backend", "dns" } :
             AllHelpers(es, n) # << >> => n \in DOMAIN result.test_helpers

\* a two-element response with skipped alternates was processed into
\* outputs that held something else before
C29_TwoElementsProcessed ==
  /\ Returned
  /\ WellFormed(arg.response)
  /\ Len(arg.response.o["net-tests"].a) = 2
  /\ arg.collectors # << >>
  /\ Len(result.collectors) = 4
  /\ DOMAIN result.test_helpers = { "backend", "dns" }
  /\ Len(result.test_helpers["backend"]) = 3

\* the endpoints query_bouncer has put in its outputs
EndpointsOf(out) ==
  { out.collectors[k] : k \in DOMAIN out.collectors }
  \cup UNION { { out.test_helpers[n][k] : k \in DOMAIN out.test_helpers[n] } :
               n \in DOMAIN out.test_helpers }

\* C30: every EndpointInfo that an accepted bouncer response puts in
\* collectors or test_helpers has a non-empty front if and only if its type
\* is cloudfront.
C30_FrontIffCloudfront ==
  (Returned /\ result.ok) =>
    \A e \in EndpointsOf(result) : (e.front # "") <=> (e.type = endpoint_type_cloudfront)

\* an accepted response has produced a cloudfront endpoint
C30_CloudfrontAccepted ==
  /\ Returned
  /\ result.ok
  /\ \E e \in EndpointsOf(result) : e.type = endpoint_type_cloudfront

\* ------------------------------------------------------ emit_ev and on_event
\* the state of run() and of the function under study
RunnerVars ==
  << arg, result, todo, settings, needs_input, faults, interrupted,
     global_mutex, pc, ctx, collector_base_url, inputs, parallelism, spawned,
     active, i, mutex, alive, elapsed, stale, wpc, widx, measurement, trace,
     info >>

\* the most events the threads deliver to the sink in one behaviour
MaxEvents == 3

\* (key, value) arguments of emit_ev as the call sites of the library build
\* them: every value is nlohmann::json::object() or a braced list of pairs
EmitCalls ==
  { << "status.queued", JObj(<< >>) >>,
    << "status.progress", JObj("percentage" :> JNum(0, TRUE) @@ "message" :> JStr("open report")) >>,
    << "log", JObj("log_level" :> JStr("WARNING") @@ "message" :> JStr("libnettest2: run: query_bouncer() failed")) >>,
    << "failure.measurement_submission", JObj("failure" :> JStr("report_not_open_error")) >>,
    << "measurement", JObj("idx" :> JNum(0, FALSE) @@ "json_str" :> JStr("{}")) >> }

\* the events that are written or on their way
InFlight == { t \in SinkThreads : sink[t].pc # "out" }

\* emit_ev(key, value): the event object is built and handed to on_event
EmitEv(t) ==
  /\ sink[t].pc = "out"
  /\ Len(clog) + Cardinality(InFlight) < MaxEvents
  /\ \E c \in EmitCalls :
       sink' = [sink EXCEPT ![t] = [pc |-> "lock",
                                    event |-> JObj("key" :> JStr(c[1]) @@ "value" :> c[2])]]
  /\ UNCHANGED << no_data_race, clog >>
  /\ UNCHANGED RunnerVars

\* an on_event that takes no mutex
OnEventEnterUnlocked(t) ==
  /\ sink[t].pc = "lock"
  /\ no_data_race' = no_data_race \cup { t }
  /\ sink' = [sink EXCEPT ![t].pc = "write"]
  /\ UNCHANGED clog
  /\ UNCHANGED RunnerVars

\* on_event: std::unique_lock<std::mutex> _{no_data_race}
OnEventEnter(t) ==
  /\ sink[t].pc = "lock"
  /\ no_data_race = {}
  /\ no_data_race' = { t }
  /\ sink' = [sink EXCEPT ![t].pc = "write"]
  /\ UNCHANGED clog
  /\ UNCHANGED RunnerVars

\* on_event: std::clog << event.dump() << std::endl
OnEventWrite(t) ==
  /\ sink[t].pc = "write"
  /\ clog' = Append(clog, sink[t].event)
  /\ sink' = [sink EXCEPT ![t].pc = "unlock"]
  /\ UNCHANGED no_data_race
  /\ UNCHANGED RunnerVars

\* on_event returns: the lock is released
OnEventLeave(t) ==
  /\ sink[t].pc = "unlock"
  /\ no_data_race' = no_data_race \ { t }
  /\ sink' = [sink EXCEPT ![t] = Outside]
  /\ UNCHANGED clog
  /\ UNCHANGED RunnerVars

SinkNext ==
  \E t \in SinkThreads :
    \/ EmitEv(t)
    \/ OnEventEnter(t)
    \/ OnEventWrite(t)
    \/ OnEventLeave(t)

SpecSink == StudyOf({ NoArg }) /\ [][SinkNext]_vars

\* the threads that are inside the write of the sink
InsideWrite == { t \in SinkThreads : sink[t].pc \in { "write", "unlock" } }

\* C27: at most one thread, the thread of run() or a dispatcher worker, is
\* inside the write of the default sink at any time, and every event the
\* sink is given is an object with exactly the members key and value, whose
\* value is an object.
C27_SinkWritesSerialized ==
  /\ Cardinality(InsideWrite) <= 1
  /\ \A k \in DOMAIN clog :
       /\ clog[k].type = "object"
       /\ DOMAIN clog[k].o = { "key", "value" }
       /\ clog[k].o["key"].type = "string"
       /\ clog[k].o["value"].type = "object"

\* a worker is writing while the thread of run() and another worker wait
\* for the sink
C27_WritersWaiting ==
  /\ sink[1].pc = "write"
  /\ sink[0].pc = "lock"
  /\ sink[2].pc = "lock"

\* ------------------------------------------------------------- sole::uuid4
\* A uint64_t is kept as its four 16-bit words, most significant first.
WordModulus == 65536

HexDigits ==
  << "0", "1", "2", "3", "4", "5", "6", "7", "8", "9", "a", "b", "c", "d", "e", "f" >>

\* operator<< of an unsigned number under std::hex and std::nouppercase
RECURSIVE Hex(_)
Hex(n) ==
  IF n < 16 THEN << HexDigits[n + 1] >>
  ELSE Hex(n \div 16) \o << HexDigits[(n % 16) + 1] >>

\* std::setw(w) with std::setfill('0'): at least w characters
RECURSIVE Pad(_, _)
Pad(text, w) == IF Len(text) >= w THEN text ELSE Pad(<< "0" >> \o text, w)

\* a uint32_t, given as its two words, under std::hex
Hex32(high, low) == IF high = 0 THEN Hex(low) ELSE Hex(high) \o Pad(Hex(low), 4)

\* uuid::str()
uuid_str(my) ==
  Pad(Hex32(my.ab[1], my.ab[2]), 8) \o << "-" >>
  \o Pad(Hex(my.ab[3]), 4) \o << "-" >>
  \o Pad(Hex(my.ab[4]), 4) \o << "-" >>
  \o Pad(Hex(my.cd[1]), 4) \o << "-" >>
  \o Pad(Hex(my.cd[2]), 4)
  \o Pad(Hex32(my.cd[3], my.cd[4]), 8)

\* 0xFFFFFFFFFFFF0FFF and 0x0000000000004000 in the least significant word
\* of ab, 0x3FFFFFFFFFFFFFFF and 0x8000000000000000 in the most significant
\* word of cd
VersionKept == 4096
VersionBits == 16384
VariantKept == 16384
VariantBits == 32768

\* a uuid4() that leaves the variant bits as drawn
uuid4_novariant(rd) ==
  [ ab |-> [rd.ab EXCEPT ![4] = (@ % VersionKept) + VersionBits],
    cd |-> rd.cd ]

\* uuid4() when std::random_device yields rd.ab and then rd.cd
uuid4(rd) ==
  [ ab |-> [rd.ab EXCEPT ![4] = (@ % VersionKept) + VersionBits],
    cd |-> [rd.cd EXCEPT ![1] = (@ % VariantKept) + VariantBits] ]

\* uuid4().str(), with the uuid it is the text of
Uuid4Str(rd) ==
  LET my == uuid4(rd)
  IN  [ab |-> my.ab, cd |-> my.cd, str |-> uuid_str(my)]

\* words with every value of the most significant four bits
MarkedWords == { (n * 4096) + 2748 : n \in 0..15 }
\* words with and without leading zero digits
PlainWords == { 0, 2587, WordModulus - 1 }
EdgeWords == { 0, WordModulus - 1 }

\* the pairs of random values uuid4() is studied on
RandomDraws ==
  { [ab |-> << a1, a2, a3, a4 >>, cd |-> << c1, c2, c3, c4 >>] :
      a1 \in PlainWords, a2 \in EdgeWords, a3 \in EdgeWords, a4 \in MarkedWords,
      c1 \in MarkedWords, c2 \in EdgeWords, c3 \in PlainWords, c4 \in EdgeWords }

Uuid4 == Study(Uuid4Str(arg))

SpecUuid == StudyOf(RandomDraws) /\ [][Uuid4]_vars

\* the value of a lowercase hex digit, 16 for any other character
DigitValue(ch) ==
  IF \E n \in 1..16 : HexDigits[n] = ch
    THEN (CHOOSE n \in 1..16 : HexDigits[n] = ch) - 1
    ELSE 16

\* the k-th hex digit (1..4) of a 16-bit word
Nibble(w, k) ==
  CASE k = 1 -> w \div 4096
    [] k = 2 -> (w \div 256) % 16
    [] k = 3 -> (w \div 16) % 16
    [] OTHER -> w % 16

\* the 32 hex digits of a pair of 64-bit values, most significant first
NibblesOf(rd) ==
  [n \in 1..32 |->
     LET words == rd.ab \o rd.cd
     IN  Nibble(words[((n - 1) \div 4) + 1], ((n - 1) % 4) + 1)]

\* the positions of the dashes in the 8-4-4-4-12 text
Dashes == { 9, 14, 19, 24 }
\* the text without its dashes
Undashed(text) == SelectSeq(text, LAMBDA ch : ch # "-")

\* C28: for every pair of 64-bit values drawn, uuid4().str() is the text of
\* a version-4 variant-1 UUID: 32 lowercase hex digits grouped 8-4-4-4-12,
\* the first digit of the third group is 4, the first digit of the fourth
\* group is 8, 9, a or b, and every other bit is the bit that was drawn.
C28_Version4Variant1 ==
  Returned =>
    LET text == result.str
        digits == Undashed(text)
        drawn == NibblesOf(arg)
    IN  /\ Len(text) = 36
        /\ \A k \in 1..36 : (text[k] = "-") <=> (k \in Dashes)
        /\ Len(digits) = 32
        /\ \A k \in 1..32 : DigitValue(digits[k]) < 16
        /\ text[15] = "4"
        /\ text[20] \in { "8", "9", "a", "b" }
        /\ \A k \in (1..32) \ { 13, 17 } : DigitValue(digits[k]) = drawn[k]
        /\ DigitValue(digits[17]) % 4 = drawn[17] % 4

\* a uuid was made of a draw whose version bits were 1111, whose variant
\* bits were 01 and whose first word was zero
C28_BitsOverwritten ==
  /\ Returned
  /\ arg.ab[1] = 0
  /\ Nibble(arg.ab[4], 1) = 15
  /\ Nibble(arg.cd[1], 1) = 5
  /\ result.str[1] = "0"
  /\ result.str[20] = "9"

\* ------------------------------------------------ the tail of a measurement
\* the positions before and after k of the records of the thread of k
EarlierOf(r, k) == { j \in 1..(k - 1) : trace[r][j].th = trace[r][k].th }
LaterOf(r, k) == { j \in (k + 1)..Len(trace[r]) : trace[r][j].th = trace[r][k].th }
Last(positions) == CHOOSE j \in positions : \A m \in positions : m <= j
First(positions) == CHOOSE j \in positions : \A m \in positions : j <= m
\* failure.measurement_submission with failure "report_not_open_error" (the
\* one that carries no idx)
NotOpenAt(r) == { k \in At(r, "failure.measurement_submission") : trace[r][k].idx = -1 }

\* C31: update_report is called only when no_collector is false and
\* ctx.report_id is not empty; when ctx.report_id is empty a serialized
\* measurement gets failure.measurement_submission "report_not_open_error"
\* instead, and the measurement event is the next thing its thread emits.
C31_SubmissionNeedsOpenReport ==
  \A r \in Runs :
    /\ \A k \in At(r, "call:update_report") :
         ~settings[r].no_collector /\ ctx[r].report_id # ""
    /\ \A k \in At(r, "measurement") :
         ctx[r].report_id = "" =>
           /\ EarlierOf(r, k) # {}
           /\ Last(EarlierOf(r, k)) \in NotOpenAt(r)
    /\ \A k \in NotOpenAt(r) :
         /\ ctx[r].report_id = ""
         /\ LaterOf(r, k) # {}
         /\ trace[r][First(LaterOf(r, k))].key = "measurement"

\* a run with a collector whose report could not be opened has emitted a
\* measurement after report_not_open_error
C31_NotOpenThenMeasurement ==
  /\ ~settings[1].no_collector
  /\ ctx[1].report_id = ""
  /\ NotOpenAt(1) # {}
  /\ At(1, "measurement") # {}
  /\ At(1, "call:update_report") = {}

\* the positions in the records of worker w where nettest_.run() returned
ReturnsOf(T) == { k \in DOMAIN T : T[k].key = "ret:nettest.run" }

\* what follows the return at position c in the records T of a worker is
\* what follows any return: a record that serializes is submitted or refused
\* and is reported by the measurement event, and status.measurement_done of
\* the idx ends the measurement
ReportedAfter(T, c) ==
  \E d \in (c + 1)..Len(T) :
    LET seg == { j \in (c + 1)..(d - 1) : T[j].key # "failure.measurement" }
    IN  /\ T[d].key = "status.measurement_done"
        /\ T[d].idx = T[c].idx
        /\ \A j \in seg : T[j].key # "status.measurement_done"
        /\ \/ \* the record did not serialize
              /\ Cardinality(seg) = 1
              /\ \A j \in seg : T[j].key = "log"
           \/ \* the record was submitted or refused, and reported
              /\ T[d - 1].key = "measurement"
              /\ T[d - 1].idx = T[c].idx
              /\ \E j \in seg : T[j].key \in SubmissionOutcomes \/ T[j].key = "measurement"

\* the events of C32 in the records of every worker
FailureFollowsFalseReturn ==
  \A r \in Runs : \A w \in Workers :
    LET T == Thread(r, w)
    IN  /\ \A c \in ReturnsOf(T) :
             /\ c < Len(T)
             /\ ~T[c].val.rv <=> (T[c + 1].key = "failure.measurement"
                                  /\ T[c + 1].idx = T[c].idx)
             /\ ReportedAfter(T, c)
        /\ \A k \in DOMAIN T :
             T[k].key = "failure.measurement" =>
               (k > 1 /\ T[k - 1].key = "ret:nettest.run" /\ ~T[k - 1].val.rv)

\* a worker that leaves nettest_.run() goes back to the head of its loop
BackToLoop ==
  \A r \in Runs : \A w \in Workers :
    (wpc[r][w] = "nettest" /\ wpc'[r][w] # "nettest") => wpc'[r][w] = "loop"

GeoCalls(r) == At(r, "call:lookup_asn") \cup At(r, "call:lookup_cc")

\* C33: whenever lookup_asn or lookup_cc is called, the probe_ip block is
\* over (a lookup_ip call, if the block makes one, comes earlier), the
\* address passed is the probe_ip of ctx, and that address is not empty,
\* whether lookup_ip succeeded, failed or was disabled.
C33_LookupsGetProbeIp ==
  \A r \in Runs : \A k \in GeoCalls(r) :
    /\ Past(r, "probe_ip")
    /\ \A j \in At(r, "call:lookup_ip") : j < k
    /\ trace[r][k].val.ip = ctx[r].probe_ip
    /\ trace[r][k].val.ip # ""

\* lookup_ip has failed and lookup_asn was called after it
C33_AsnLookupAfterFailedIpLookup ==
  \E f \in At(1, "failure.ip_lookup") : \E k \in At(1, "call:lookup_asn") :
    f < k /\ "ip" \in DOMAIN trace[1][k].val

\* ------------------------------------------------ configured probe values
\* the network names lookup_asn can leave in ctx
LookedUpNames == { out.name : out \in AsnOutcomes }

\* C34: a configured probe_ip (probe_asn, probe_cc) keeps lookup_ip
\* (lookup_asn, lookup_cc) from being called, whatever the no_*_lookup flags
\* are, and is the value of the ctx member once its block is over; the
\* configured probe_network_name reaches ctx exactly when probe_asn is
\* configured: otherwise ctx holds what lookup_asn left, or nothing.
C34_ConfiguredProbeWins ==
  \A r \in Runs :
    LET s == settings[r]
    IN  /\ s.probe_ip # "" =>
              /\ Calls(r, "call:lookup_ip") = 0
              /\ Past(r, "probe_ip") => ctx[r].probe_ip = s.probe_ip
        /\ s.probe_asn # "" =>
              /\ Calls(r, "call:lookup_asn") = 0
              /\ Past(r, "probe_asn") =>
                    /\ ctx[r].probe_asn = s.probe_asn
                    /\ ctx[r].probe_network_name = s.probe_network_name
        /\ s.probe_cc # "" =>
              /\ Calls(r, "call:lookup_cc") = 0
              /\ Past(r, "probe_cc") => ctx[r].probe_cc = s.probe_cc
        /\ (s.probe_asn = "" /\ Past(r, "probe_asn")) =>
              ctx[r].probe_network_name
                \in (IF Calls(r, "call:lookup_asn") = 0 THEN { "" } ELSE LookedUpNames)

\* a run with every value configured and every lookup enabled has finished
\* without a lookup, and a run with only a network name configured has
\* looked the network up (the two runs are alternatives of run 1)
C34_ConfiguredWithLookupsEnabled ==
  /\ pc[1] = "done"
  /\ settings[1].probe_ip # "" /\ ~settings[1].no_ip_lookup
  /\ settings[1].probe_asn # "" /\ ~settings[1].no_asn_lookup
  /\ settings[1].probe_cc # "" /\ ~settings[1].no_cc_lookup
  /\ ctx[1].probe_network_name = "Net"
  /\ Calls(1, "call:lookup_asn") = 0

\* ------------------------------------------------------ lookup_ip, studied
\* a std::string is a sequence of characters here; find() gives the first
\* position where t occurs in s, and 0 stands for std::string::npos
Occurrences(s, t) ==
  { p \in 1..(Len(s) - Len(t) + 1) : SubSeq(s, p, p + Len(t) - 1) = t }
Find(s, t) ==
  IF Occurrences(s, t) = {} THEN 0
  ELSE CHOOSE p \in Occurrences(s, t) : \A q \in Occurrences(s, t) : p <= q
\* substr(pos) with pos counted from 1
Substr(s, pos) == SubSeq(s, pos, Len(s))

isspace(ch) == ch \in { " ", "\t", "\n", "\r", "\f" }
tolower(ch) ==
  CASE ch = "A" -> "a" [] ch = "I" -> "i" [] ch = "P" -> "p" [] OTHER -> ch

\* the loop of xml_extract: every character that is not a space is appended,
\* lower-cased, to *result (held)
RECURSIVE AppendLowered(_, _)
AppendLowered(held, input) ==
  IF input = << >> THEN held
  ELSE AppendLowered(IF isspace(Head(input)) THEN held
                     ELSE Append(held, tolower(Head(input))),
                     Tail(input))

\* an xml_extract that takes a missing tag for an empty element
xml_extract_lenient(input, open_tag, close_tag, held) ==
  LET pos == Find(input, open_tag)
      rest == IF pos = 0 THEN << >> ELSE Substr(input, pos + Len(open_tag))
      end == Find(rest, close_tag)
  IN  [ok |-> TRUE,
       text |-> IF pos = 0 \/ end = 0 THEN held
                  ELSE AppendLowered(held, SubSeq(rest, 1, end - 1))]

\* xml_extract: its return value and what *result (text) holds afterwards
xml_extract(input, open_tag, close_tag, held) ==
  LET pos == Find(input, open_tag)
  IN  IF pos = 0 THEN [ok |-> FALSE, text |-> held]
      ELSE LET rest == Substr(input, pos + Len(open_tag))
               end == Find(rest, close_tag)
           IN  IF end = 0 THEN [ok |-> FALSE, text |-> held]
               ELSE [ok |-> TRUE,
                     text |-> AppendLowered(held, SubSeq(rest, 1, end - 1))]

OpenTag == << "<", "I", "p", ">" >>
CloseTag == << "<", "/", "I", "p", ">" >>

\* lookup_ip on the outcome of its GET: *ip is cleared first, whatever it held
lookup_ip(ip, response) ==
  IF ~response.transfer THEN [ok |-> FALSE, ip |-> << >>]
  ELSE LET got == xml_extract(response.body, OpenTag, CloseTag, << >>)
       IN  [ok |-> got.ok, ip |-> got.text]

\* the probe_ip block of run() when no probe_ip is configured and the lookup
\* is enabled: what ctx.probe_ip holds afterwards and what is emitted
ProbeIpBlock(response) ==
  LET out == lookup_ip(<< "1", "2", "7", ".", "0", ".", "0", ".", "1" >>, response)
  IN  [ok |-> out.ok, probe_ip |-> out.ip,
       events |-> IF out.ok THEN << >> ELSE << "log", "failure.ip_lookup" >>]

\* the longest body, in pieces
MaxPieces == 4
Pieces == { OpenTag, CloseTag, << "A" >>, << " " >>, << "1" >>, << "<" >>, << "\n" >> }
RECURSIVE Texts(_)
Texts(n) ==
  IF n = 0 THEN { << >> }
  ELSE LET shorter == Texts(n - 1)
       IN  shorter \cup { t \o piece : t \in shorter, piece \in Pieces }

IpResponses ==
  { [transfer |-> TRUE, body |-> b] : b \in Texts(MaxPieces) }
    \cup { [transfer |-> FALSE, body |-> << >>] }

LookupIp == Study(ProbeIpBlock(arg))

SpecLookupIp == StudyOf(IpResponses) /\ [][LookupIp]_vars

\* where the element of the body starts and ends: the first opening tag and
\* the first closing tag that begins after it
FirstOpen(b) == Find(b, OpenTag)
ClosesAfter(b) ==
  { q \in Occurrences(b, CloseTag) : FirstOpen(b) # 0 /\ q >= FirstOpen(b) + Len(OpenTag) }
HasElement(b) == ClosesAfter(b) # {}
Element(b) ==
  LET q == CHOOSE c \in ClosesAfter(b) : \A d \in ClosesAfter(b) : c <= d
  IN  SubSeq(b, FirstOpen(b) + Len(OpenTag), q - 1)
\* a text without its whitespace, in lower case
Normalized(t) ==
  LET kept == SelectSeq(t, LAMBDA ch : ~isspace(ch))
  IN  [k \in 1..Len(kept) |-> tolower(kept[k])]

\* the lookup gave the text of the element
GaveElement ==
  /\ result.ok
  /\ result.events = << >>
  /\ result.probe_ip = Normalized(Element(arg.body))

\* C35 (as the code has it): on a body without an <Ip> tag, or without a
\* closing </Ip> after it, lookup_ip fails, the address is left empty and
\* failure.ip_lookup is emitted; on a body with both it succeeds with the text
\* between the first <Ip> and the following </Ip>, whitespace removed and
\* letters lower-cased.
C35_MissingTagFails ==
  Returned =>
    IF arg.transfer /\ HasElement(arg.body) THEN GaveElement
    ELSE /\ ~result.ok
         /\ result.probe_ip = << >>
         /\ result.events = << "log", "failure.ip_lookup" >>

\* C35 (as stated): on a body without an <Ip> tag, or without a closing
\* </Ip>, lookup_ip reports success with an empty address and no
\* failure.ip_lookup is emitted; on a body with both it gives the normalized
\* text of the element.
C35_MissingTagSucceeds ==
  (Returned /\ arg.transfer) =>
    IF HasElement(arg.body) THEN GaveElement
    ELSE /\ result.ok
         /\ result.probe_ip = << >>
         /\ result.events = << >>

\* lookup_ip has failed on a body that has an opening tag and no closing tag
\* after it
C35_OpenTagOnly ==
  /\ Returned
  /\ arg.transfer
  /\ FirstOpen(arg.body) # 0
  /\ ~HasElement(arg.body)
  /\ "failure.ip_lookup" \in { result.events[k] : k \in DOMAIN result.events }

\* -------------------------------------------- without_final_slash, studied
\* a without_final_slash that removes one slash only
without_final_slash_once(src) ==
  IF Len(src) > 0 /\ src[Len(src)] = "/" THEN SubSeq(src, 1, Len(src) - 1) ELSE src

\* without_final_slash: the while loop drops the last character as long as
\* it is a slash
RECURSIVE without_final_slash(_)
without_final_slash(src) ==
  IF Len(src) > 0 /\ src[Len(src)] = "/"
    THEN without_final_slash(SubSeq(src, 1, Len(src) - 1))
    ELSE src

\* the URLs open_report, update_report and close_report post to
ReportPath == << "/", "r", "e", "p", "o", "r", "t" >>
OpenUrl(base) == without_final_slash(base) \o ReportPath
UpdateUrl(base, report_id) ==
  without_final_slash(base) \o ReportPath \o << "/" >> \o report_id
CloseUrl(base, report_id) ==
  without_final_slash(base) \o (ReportPath \o << "/" >> \o report_id
                                \o << "/", "c", "l", "o", "s", "e" >>)

\* the three URLs built for one base URL and one report id
ReportUrls(a) ==
  [stem |-> without_final_slash(a.base), open |-> OpenUrl(a.base),
   update |-> UpdateUrl(a.base, a.report_id), close |-> CloseUrl(a.base, a.report_id)]

\* the longest base URL, in characters
MaxUrlLen == 5
UrlChars == { "/", "c", ":" }
RECURSIVE Urls(_)
Urls(n) ==
  IF n = 0 THEN { << >> }
  ELSE LET shorter == Urls(n - 1)
       IN  shorter \cup { Append(u, ch) : u \in shorter, ch \in UrlChars }

UrlArgs ==
  { [base |-> b, report_id |-> id] : b \in Urls(MaxUrlLen), id \in { << >>, << "r", "1" >> } }

BuildReportUrls == Study(ReportUrls(arg))

SpecUrls == StudyOf(UrlArgs) /\ [][BuildReportUrls]_vars

\* s begins with t
StartsWith(s, t) == Len(t) <= Len(s) /\ SubSeq(s, 1, Len(t)) = t
EndsInSlash(s) == Len(s) > 0 /\ s[Len(s)] = "/"

\* C36: the stem the three request URLs are built on is the longest prefix of
\* the base URL that does not end in '/': what it drops is slashes only, and
\* removing the final slashes again changes nothing; the URLs are the stem
\* followed by /report, /report/<id> and /report/<id>/close.
C36_TrailingSlashesRemoved ==
  Returned =>
    LET b == arg.base
        w == result.stem
    IN  /\ StartsWith(b, w)
        /\ ~EndsInSlash(w)
        /\ \A n \in (Len(w) + 1)..Len(b) : b[n] = "/"
        /\ without_final_slash(w) = w
        /\ result.open = w \o ReportPath
        /\ result.update = w \o ReportPath \o << "/" >> \o arg.report_id
        /\ StartsWith(result.close, w \o ReportPath \o << "/" >> \o arg.report_id)
        /\ Len(result.close) = Len(w) + Len(ReportPath) + Len(arg.report_id) + 7

\* the URLs were built on a base URL that ends in two slashes after a host
C36_TwoSlashesDropped ==
  /\ Returned
  /\ Len(arg.base) > 2
  /\ EndsInSlash(arg.base)
  /\ EndsInSlash(SubSeq(arg.base, 1, Len(arg.base) - 1))
  /\ Len(result.stem) = Len(arg.base) - 2

\* --------------------------------------- libnettest2_curl_debugfn, studied
\* enum LogLevel, in its order
LevelRank ==
  [ log_quiet |-> 0, log_err |-> 1, log_warning |-> 2, log_info |-> 3,
    log_debug |-> 4, log_debug2 |-> 5 ]
\* curl_infotype
InfoTypes ==
  { "CURLINFO_TEXT", "CURLINFO_HEADER_IN", "CURLINFO_HEADER_OUT",
    "CURLINFO_DATA_IN", "CURLINFO_DATA_OUT", "CURLINFO_SSL_DATA_IN",
    "CURLINFO_SSL_DATA_OUT", "CURLINFO_END" }

\* the first switch: the debug messages a chunk gives when the log level
\* allows them; text and headers give one message per line of the chunk
DebugMessages(type, lines) ==
  CASE type \in { "CURLINFO_TEXT", "CURLINFO_HEADER_IN", "CURLINFO_HEADER_OUT" } -> lines
    [] type = "CURLINFO_END" -> 0
    [] OTHER -> 1

\* the second switch: the counters after the chunk; the counters are 64 bits
\* wide and the totals of a run stay far below that width
Counted(type, size, counters) ==
  CASE type \in { "CURLINFO_HEADER_IN", "CURLINFO_DATA_IN", "CURLINFO_SSL_DATA_IN" } ->
         [counters EXCEPT !.bytes_down = @ + size]
    [] type \in { "CURLINFO_HEADER_OUT", "CURLINFO_DATA_OUT", "CURLINFO_SSL_DATA_OUT" } ->
         [counters EXCEPT !.bytes_up = @ + size]
    [] OTHER -> counters

\* a callback that counts inside the block the log level guards
libnettest2_curl_debugfn_counting_on_debug(level, type, size, lines, counters) ==
  IF LevelRank[level] >= LevelRank["log_debug"]
    THEN [messages |-> DebugMessages(type, lines), info |-> Counted(type, size, counters)]
    ELSE [messages |-> 0, info |-> counters]

\* libnettest2_curl_debugfn: the messages logged and what *wrapper->info
\* holds afterwards
libnettest2_curl_debugfn(level, type, size, lines, counters) ==
  [messages |-> IF LevelRank[level] >= LevelRank["log_debug"]
                  THEN DebugMessages(type, lines) ELSE 0,
   info |-> Counted(type, size, counters)]

DebugFnOf(a) == libnettest2_curl_debugfn(a.level, a.type, a.size, a.lines, a.info)

\* the largest chunk
MaxChunk == 1460
ChunkSizes == { 0, 1, MaxChunk }
\* what the counters hold before the chunk
CountersBefore ==
  { [bytes_down |-> d, bytes_up |-> u] :
      d \in { 0, TransferBytes }, u \in { 0, TransferBytes + TransferBytes } }

DebugFnArgs ==
  { [level |-> lv, type |-> ty, size |-> sz, lines |-> IF sz = 0 THEN 0 ELSE ln,
     info |-> c] :
      lv \in DOMAIN LevelRank, ty \in InfoTypes, sz \in ChunkSizes, ln \in { 1, 2 },
      c \in CountersBefore }

CurlDebugFn == Study(DebugFnOf(arg))

SpecDebugFn == StudyOf(DebugFnArgs) /\ [][CurlDebugFn]_vars

\* the chunks that are sent and the chunks that are received
Outgoing == { "CURLINFO_HEADER_OUT", "CURLINFO_DATA_OUT", "CURLINFO_SSL_DATA_OUT" }
Incoming == { "CURLINFO_HEADER_IN", "CURLINFO_DATA_IN", "CURLINFO_SSL_DATA_IN" }

OpenRequest(s, c, url) ==
  [ url |-> OpenUrl(url),
    body |-> [ data_format_version |-> "0.2.0", format |-> "json",
               input_hashes |-> << >>,
               probe_asn |-> c.probe_asn, probe_cc |-> c.probe_cc,
               software_name |-> s.software_name,
               software_version |-> s.software_version,
               test_name |-> "nettest", test_start_time |-> "start",
               test_version |-> "0.0.1" ] ]
\* the message update_report posts: the record of the measurement, serialized
UpdateRequest(url, report_id, json_str) ==
  [ url |-> UpdateUrl(url, report_id),
    body |-> [ content |-> json_str, format |-> "json" ] ]
\* close_report posts an empty body
CloseRequest(url, report_id) == [ url |-> CloseUrl(url, report_id), body |-> "" ]

\* the requests of a run that opens its report, submits the measurement of
\* one input and closes the report
CollectorRequests(s, c, url, input) ==
  [ open |-> OpenRequest(s, c, url),
    update |-> UpdateRequest(url, << "r", "1" >>,
                             WithTestKeys(Record(s, c, input), [result |-> "r"], s, c)),
    close |-> CloseRequest(url, << "r", "1" >>) ]

\* a context after the early stages of a run
ProbedCtx ==
  [ EmptyCtx EXCEPT !.probe_ip = "93.184.216.34", !.probe_asn = "AS30722",
                    !.probe_network_name = "Vodafone", !.probe_cc = "IT",
                    !.report_id = "r1", !.resolver_ip = "8.8.8.8" ]
\* the same context on another network, in another country, or both
OtherProbes ==
  { [ProbedCtx EXCEPT !.probe_asn = asn, !.probe_cc = cc] :
      asn \in { "AS30722", "AS1", "AS0" }, cc \in { "IT", "ZZ" } }

\* two runs of one configuration whose contexts differ in probe_asn and
\* probe_cc at most
TwinRuns ==
  { [ settings |-> [KnownProbe EXCEPT !.no_collector = FALSE,
                                      !.save_real_probe_asn = asn,
                                      !.save_real_probe_cc = cc,
                                      !.save_real_probe_ip = ip,
                                      !.save_real_resolver_ip = rs],
      url |-> u, left |-> ProbedCtx, right |-> other ] :
      asn \in BOOLEAN, cc \in BOOLEAN, ip \in BOOLEAN, rs \in BOOLEAN,
      u \in { << "c" >>, << "c", "/" >> }, other \in OtherProbes }

RequestsOf(a) ==
  [ left |-> CollectorRequests(a.settings, a.left, a.url, "a"),
    right |-> CollectorRequests(a.settings, a.right, a.url, "a") ]

SendRequests == Study(RequestsOf(arg))

SpecRequests == StudyOf(TwinRuns) /\ [][SendRequests]_vars

\* the two contexts differ in the members of hidden at most
DifferOnlyIn(hidden) ==
  \A member \in DOMAIN arg.left \ hidden : arg.left[member] = arg.right[member]

\* C38: when save_real_probe_asn (save_real_probe_cc) is false, two runs that
\* differ only in the probe_asn (probe_cc) of ctx send the collector the same
\* open_report, update_report and close_report requests.
C38_CollectorBlindToProbe ==
  Returned =>
    /\ (~arg.settings.save_real_probe_asn /\ DifferOnlyIn({ "probe_asn" }))
         => result.left = result.right
    /\ (~arg.settings.save_real_probe_cc /\ DifferOnlyIn({ "probe_cc" }))
         => result.left = result.right

\* with save_real_probe_asn false, two runs on different networks have sent
\* the same measurement and different open_report documents
C38_OpenReportTellsAsn ==
  /\ Returned
  /\ ~arg.settings.save_real_probe_asn
  /\ DifferOnlyIn({ "probe_asn" })
  /\ arg.left.probe_asn # arg.right.probe_asn
  /\ result.left.update = result.right.update
  /\ result.left.close = result.right.close
  /\ result.left.open.body.probe_asn # result.right.open.body.probe_asn

\* ------------------------------------------------ an interrupted Runner
\* interrupt() was called on the Runner of run r before run(): the flag is
\* set and no interrupt() is made during the run
InterruptedBefore(r) == interrupted[r] /\ "interrupt" \notin faults[r]
\* run r has emitted status.progress with percentage pct
Progressed(r, pct) == \E k \in At(r, "status.progress") : trace[r][k].pct = pct

\* a run of a Runner interrupted before run() skips no early stage, starts
\* no measurement, and ends with its report closed, status.progress 0.9 and
\* 1.0 and status.end
InterruptedRunStartsNothing ==
  \A r \in Runs :
    InterruptedBefore(r) =>
      /\ Past(r, "bouncer") =>
           Calls(r, "call:query_bouncer") = Once(~settings[r].no_bouncer)
      /\ Past(r, "probe_ip") =>
           Calls(r, "call:lookup_ip")
             = Once(settings[r].probe_ip = "" /\ ~settings[r].no_ip_lookup)
      /\ Past(r, "probe_asn") =>
           Calls(r, "call:lookup_asn")
             = Once(settings[r].probe_asn = "" /\ ~settings[r].no_asn_lookup)
      /\ Past(r, "probe_cc") =>
           Calls(r, "call:lookup_cc")
             = Once(settings[r].probe_cc = "" /\ ~settings[r].no_cc_lookup)
      /\ Past(r, "resolver") =>
           Calls(r, "call:lookup_resolver_ip") = Once(~settings[r].no_resolver_lookup)
      /\ Past(r, "open_report") =>
           Calls(r, "call:open_report")
             = Once(~settings[r].no_collector /\ settings[r].collector_base_url = "")
      /\ Count(r, IsStart) = 0
      /\ pc[r] = "done" =>
           /\ Calls(r, "call:close_report")
                = Once(~settings[r].no_collector /\ ctx[r].report_id # "")
           /\ Progressed(r, 90)
           /\ Progressed(r, 100)
           /\ At(r, "status.end") # {}

\* interrupt() sets the flag and nothing clears it
FlagStays == \A r \in Runs : interrupted[r] => interrupted'[r]

\* C39: the interrupt flag is never cleared, and a run of a Runner that was
\* interrupted before run() still goes through the bouncer, the lookups,
\* open_report and close_report, starts no measurement at all, and emits
\* status.progress 0.9 and 1.0 and status.end.
C39_InterruptStopsMeasurements ==
  []InterruptedRunStartsNothing /\ [][FlagStays]_vars

\* a run of a Runner interrupted before run() has returned after its early
\* stages called their collaborators, and a measurement was started
C39_StartedThoughInterrupted ==
  /\ InterruptedBefore(1)
  /\ pc[1] = "done"
  /\ Calls(1, "call:query_bouncer") = 1
  /\ Progressed(1, 100)
  /\ Count(1, IsStart) > 0

\* ------------------------------------------- test_helpers in the records
\* the name the record gives an endpoint type
TypeName(t) ==
  CASE t = endpoint_type_onion -> "onion"
    [] t = endpoint_type_https -> "https"
    [] t = endpoint_type_cloudfront -> "cloudfront"

\* member describes endpoint e
Describes(member, e) ==
  /\ member.address = e.address
  /\ member.type = TypeName(e.type)
  /\ ("front" \in DOMAIN member) <=> (e.type = endpoint_type_cloudfront)
  /\ e.type = endpoint_type_cloudfront => member.front = e.front

\* C40: in every measurement record test_helpers has one member per helper
\* name the bouncer discovered, and the member describes the last endpoint of
\* that helper's list: its address, its type, and a front exactly when that
\* endpoint is of type cloudfront.
C40_LastEndpointDescribed ==
  \A r \in Runs : \A k \in At(r, "measurement") :
    LET found == ctx[r].test_helpers
        written == trace[r][k].val.test_helpers
    IN  /\ DOMAIN written = DOMAIN found
        /\ \A name \in DOMAIN found :
             Describes(written[name], found[name][Len(found[name])])

\* the bouncer found a helper with three endpoints, the last one of type
\* https, and a record describes that endpoint, without a front
C40_HttpsEndpointLast ==
  \E k \in At(1, "measurement") :
    /\ "backend" \in DOMAIN ctx[1].test_helpers
    /\ Len(ctx[1].test_helpers["backend"]) = 3
    /\ ctx[1].test_helpers["backend"][3].type = endpoint_type_https
    /\ "backend" \in DOMAIN trace[1][k].val.test_helpers
    /\ trace[1][k].val.test_helpers["backend"]
         = [address |-> "https://h.example", type |-> "https"]

====
